---------------------------- MODULE Spec2Model ----------------------------
(***************************************************************************)
(* A model of omnigo's protocol-adaptation core:                           *)
(*   - relay.Relay (Chat, Media, TaskStatus, Stream, doRequest),           *)
(*   - llm.providerStream (Next, Close) with the OpenAI and Anthropic      *)
(*     chunk parsers.                                                      *)
(* Spec                is the Relay state machine,                         *)
(* SpecTokenStream     is one providerStream instance over one body,       *)
(* SpecConcurrentRelay is concurrent Relay calls on shared clients,        *)
(* SpecAdaptor         is one caller's config and request across calls,    *)
(* SpecRegistry        is concurrent calls on the default registry,        *)
(* SpecURL, SpecChatRequest, SpecDecode, SpecMediaRequest and SpecWrapper  *)
(*                     apply one adaptor function to one input,            *)
(* SpecGenerate        is concurrent LLMImpl.Generate calls on one LLM,    *)
(* SpecGenerateLive    the same with fair scheduling of each call.         *)
(***************************************************************************)
EXTENDS Integers, Sequences, FiniteSets, TLC

VARIABLES
    \* ---- providerStream (src/llm/llm.go) ----
    parser,        \* which adaptor's ParseStreamResponse the stream uses
    body,          \* what the response body delivers: events and read errors
    pos,           \* number of body items the decoder has consumed
    attempts,      \* retry strategy: attempt counter
    currentIndex,  \* providerStream.currentIndex
    pc,            \* position of the Next call: "idle", "loop" or "sleep"
    sleepLeft,     \* ticks left of the time.Sleep in progress
    ctxDone,       \* the caller's context is cancelled
    closeCount,    \* how many times reader.Close() ran on the response body
    closeCalls,    \* how many times providerStream.Close was called
    calls,         \* how many times providerStream.Next was called
    returns,       \* what the Next calls returned, in order
    \* ---- Relay (src/relay/relay.go) ----
    relayClient,   \* Relay.Client: "none" (nil) or the client "rc"
    clientTimeout, \* the Timeout field of each long-lived http.Client
    last,          \* the Relay call that just returned, until the caller takes it
    \* ---- concurrent Relay calls (src/relay/relay.go) ----
    flight,        \* per goroutine: the position and locals of its Relay call
    \* ---- a caller's config and request across calls (src/adapter) ----
    adp,           \* the adaptor the caller uses
    config,        \* the caller's *ProviderConfig: its Headers map
    request,       \* the caller's *dto.ChatRequest: its Options map
    wire,          \* what each call put on the wire: op, URL and body
    \* ---- the provider registry (src/unnamed/part_003) ----
    once,          \* defaultRegistryOnce: "fresh", "running" or "done"
    instances,     \* how many registries NewRegistry has constructed
    defaultRegistry, \* the package variable: 0 (nil) or a registry
    specs,         \* per registry: Registry.specs
    mu,            \* per registry: Registry.mu, its writer and its readers
    gor,           \* per goroutine: the position and locals of its call
    history,       \* per name: the specs that were ever stored under it
    visible,       \* the names whose registration has returned
    \* ---- one adaptor function applied to one input (src/adapter) ----
    input,         \* the arguments of the call
    output,        \* what the call returned, once it has returned
    \* ---- LLMImpl.Generate (src/llm/llm.go) ----
    llmOptions,    \* l.Options: the value stored under "system_prompt"
    gen            \* per goroutine: the position and locals of its Generate

streamVars == <<parser, body, pos, attempts, currentIndex, pc, sleepLeft,
                ctxDone, closeCount, closeCalls, calls, returns>>

relayVars == <<relayClient, clientTimeout, last>>

flightVars == <<flight>>

adaptorVars == <<adp, config, request, wire>>

registryVars == <<once, instances, defaultRegistry, specs, mu, gor, history, visible>>

codecVars == <<input, output>>

llmVars == <<llmOptions, gen>>

vars == <<streamVars, relayVars, flightVars, adaptorVars, registryVars, codecVars, llmVars>>

-----------------------------------------------------------------------------
(* Bounds of the model.                                                    *)

MaxEvents == 2      \* items in one response body
MaxCalls == 3       \* Next calls on one stream
MaxCloses == 2      \* Close calls on one stream
MaxRetries == 1     \* cfg.MaxRetries, handed to DefaultRetryStrategy
RetryDelay == 1     \* cfg.RetryDelay in ticks, the strategy's InitialWait
CallTimeout == 5    \* a positive config.Timeout
ClientTimeout == 7  \* a Timeout already configured on an http.Client
NumGoroutines == 2  \* goroutines, each making one call, concurrently
MaxRelayCalls == 3  \* calls one caller makes with one config and request
MaxResolves == 2    \* times a caller resolves the URL of one config

(* llm.go:430, MaxWait: l.RetryDelay * 10 *)
MaxWaitFactor == 10

Min(a, b) == IF a < b THEN a ELSE b

RECURSIVE Pow2(_)
Pow2(n) == IF n = 0 THEN 1 ELSE 2 * Pow2(n - 1)

-----------------------------------------------------------------------------
(* Relay: one HTTP round trip per call.  The adaptor is polymorphic, so    *)
(* what its methods answer is an input of each call.                       *)

(* net/http StatusOK and StatusAccepted, and the default timeout in        *)
(* seconds (relay.go:248).                                                 *)
StatusOK == 200
StatusAccepted == 202
DefaultTimeout == 60

(* helpers.go:535, part_004:156, http.StatusBadRequest *)
StatusBadRequest == 400

(* part_004:154, the code of a Jimeng response that is no error *)
JimengSuccess == 10000

Statuses == {101, 200, 201, 202, 204, 404, 500}

Clients == {"rc", "cc"}

Lower(str) == IF str = "OpenAI" THEN "openai" ELSE str

EqualFold(a, b) == Lower(a) = Lower(b)

\* Header maps: the one the adaptor's SetupHeaders leaves on the request and
\* the ones a caller puts in config.Headers.
NoHeaders == [k \in {} |-> ""]
AdaptorHeaders ==
    [k \in {"Authorization", "Content-Type"} |->
        IF k = "Authorization" THEN "adaptor" ELSE "application/json"]
CallerHeaders ==
    { NoHeaders,
      [k \in {"Authorization"} |-> "caller"],
      [k \in {"authorization"} |-> "caller"],
      [k \in {"X-Extra"} |-> "caller"] }

\* http.Header.Set stores a value under the canonical form of its key.
CanonicalHeaderKey(k) == IF k = "authorization" THEN "Authorization" ELSE k

\* Caller overrides that never reach the request.
SetHeaders_AdaptorWins(h, overrides) ==
    [k \in DOMAIN h \cup { CanonicalHeaderKey(o) : o \in DOMAIN overrides } |->
        IF k \in DOMAIN h THEN h[k]
        ELSE overrides[CHOOSE o \in DOMAIN overrides : CanonicalHeaderKey(o) = k]]

\* for key, value := range config.Headers { req.Header.Set(key, value) }
SetHeaders(h, overrides) ==
    [k \in DOMAIN h \cup { CanonicalHeaderKey(o) : o \in DOMAIN overrides } |->
        IF \E o \in DOMAIN overrides : CanonicalHeaderKey(o) = k
        THEN overrides[CHOOSE o \in DOMAIN overrides : CanonicalHeaderKey(o) = k]
        ELSE h[k]]

\* *adapter.ProviderConfig; nil is the nil pointer.
Configs ==
    [nil : {FALSE}, Name : {"p1", "p2"}, Timeout : {0, CallTimeout},
     HTTPClient : {"none", "cc"}, ChatProtocol : {"", "OpenAI"},
     Headers : CallerHeaders]

\* ChatProtocol is read by Chat alone.
PlainConfigs == { cfg \in Configs : cfg.ChatProtocol = "" }

NilConfig ==
    [nil |-> TRUE, Name |-> "", Timeout |-> 0, HTTPClient |-> "none",
     ChatProtocol |-> "", Headers |-> NoHeaders]

\* What the network answers: no response at all, or a status and a body
\* whose read succeeds or fails.
RoundTrips ==
    {[ok |-> FALSE, status |-> 0, readOK |-> FALSE, payload |-> "none"]}
    \cup [ok : {TRUE}, status : Statuses, readOK : {TRUE}, payload : {"good", "bad"}]
    \cup [ok : {TRUE}, status : Statuses, readOK : {FALSE}, payload : {"none"}]

\* What adaptor methods answer.
URLs == {"err", "", "bad", "https://host/path"}
Answers == {"ok", "err"}

\* The task-status request: method, body, and whether a TaskRequestAdaptor
\* shaped it (custom) or failed to (err).
TaskRequest(custom, err, method, reqBody) ==
    [custom |-> custom, err |-> err, method |-> method, body |-> reqBody]

\* A default that is not GET.
DefaultTaskRequest_Post == TaskRequest(FALSE, FALSE, "POST", "")

\* method := http.MethodGet; var body []byte
DefaultTaskRequest == TaskRequest(FALSE, FALSE, "GET", "")

\* PrepareTaskStatusRequest of an adaptor that is a TaskRequestAdaptor.
TaskRequests ==
    { TaskRequest(TRUE, TRUE, "", ""),
      TaskRequest(TRUE, FALSE, "POST", "payload"),
      TaskRequest(TRUE, FALSE, "GET", "payload") }

\* The record of one Relay call.
NoCall ==
    [op |-> "none", cfgName |-> "", cfg |-> NilConfig,
     taskReq |-> DefaultTaskRequest, sent |-> FALSE, method |-> "",
     reqBody |-> "", headers |-> NoHeaders, client |-> "none", timeout |-> 0, obtained |-> FALSE, status |-> 0,
     readOK |-> FALSE, payload |-> "none", closed |-> 0, decoded |-> FALSE,
     converter |-> "", result |-> "none", errType |-> "nil", err |-> "",
     code |-> 0, provider |-> ""]

Call(op, cfg) == [NoCall EXCEPT !.op = op, !.cfgName = cfg.Name, !.cfg = cfg]

\* fmt.Errorf(...) and the errors adaptors and the transport return.
Errorf(c, msg) == [c EXCEPT !.errType = "error", !.err = msg, !.result = "none"]

\* &dto.LLMError{Code, Message, Provider}
LLMError(c, code, msg, provider) ==
    [c EXCEPT !.errType = "LLMError", !.err = msg, !.code = code,
              !.provider = provider, !.result = "none"]

\* client := config.HTTPClient; if nil, r.Client; if nil, &http.Client{}
SelectClient(cfg) ==
    IF cfg.HTTPClient # "none" THEN cfg.HTTPClient
    ELSE IF relayClient # "none" THEN relayClient
    ELSE "new"

\* A client timeout that is never honoured.
TimeoutAfter_AlwaysDefault(cfg, cl) ==
    IF cfg.Timeout > 0 THEN cfg.Timeout ELSE DefaultTimeout

\* The client's Timeout after: if config.Timeout > 0 {...} else if
\* client.Timeout == 0 {...}
TimeoutAfter(cfg, cl) ==
    LET before == IF cl = "new" THEN 0 ELSE clientTimeout[cl]
    IN  IF cfg.Timeout > 0 THEN cfg.Timeout
        ELSE IF before = 0 THEN DefaultTimeout
        ELSE before

\* Header overrides, client selection, timeout, and client.Do(req).
Send(c, cfg, method, reqBody, rt) ==
    LET cl == SelectClient(cfg)
        s == [c EXCEPT !.sent = TRUE, !.method = method, !.reqBody = reqBody,
                       !.client = cl,
                       !.headers = SetHeaders(AdaptorHeaders, cfg.Headers),
                       !.timeout = TimeoutAfter(cfg, cl)]
    IN  IF ~rt.ok THEN Errorf(s, "transport error")
        ELSE [s EXCEPT !.obtained = TRUE, !.status = rt.status,
                       !.readOK = rt.readOK, !.payload = rt.payload]

\* A body that is never closed.
CloseBody_Leak(c) == c

\* resp.Body.Close()
CloseBody(c) == [c EXCEPT !.closed = c.closed + 1]

\* The conventional 2xx range in place of the 200/202 test.
IsFailure_Outside2xx(status) == status < 200 \/ status >= 300

\* doRequest: resp.StatusCode != StatusOK && resp.StatusCode != StatusAccepted
IsFailure(status) == status # StatusOK /\ status # StatusAccepted

\* TaskStatus: resp.StatusCode < 200 || resp.StatusCode >= 300
TaskIsFailure(status) == status < 200 \/ status >= 300

\* Stream: resp.StatusCode != http.StatusOK
StreamIsFailure(status) == status # StatusOK

\* The response of doRequest, read and classified (relay.go:251-269).
Classify(c, cfg) ==
    IF ~c.obtained THEN c
    ELSE LET d == CloseBody(c)
         IN  IF ~d.readOK THEN Errorf(d, "read error")
             ELSE IF IsFailure(d.status)
                  THEN LLMError(d, d.status, d.payload, cfg.Name)
             ELSE [d EXCEPT !.result = "bytes"]

\* A doRequest that learns of the header error after the round trip.
doRequest_HeadersAfterSend(c, cfg) ==
    UNION { IF u = "err" THEN {Errorf(c, "url error")}
            ELSE IF u = "" THEN {Errorf(c, "request url is empty")}
            ELSE IF u = "bad" THEN {Errorf(c, "invalid request")}
            ELSE UNION { IF h = "err"
                         THEN { Errorf(CloseBody(Send(c, cfg, "POST", "payload", rt)),
                                       "headers error") : rt \in RoundTrips }
                         ELSE { Classify(Send(c, cfg, "POST", "payload", rt), cfg) :
                                    rt \in RoundTrips }
                         : h \in Answers }
            : u \in URLs }

\* The possible results of doRequest for the call c.
doRequest(c, cfg) ==
    UNION { IF u = "err" THEN {Errorf(c, "url error")}
            ELSE IF u = "" THEN {Errorf(c, "request url is empty")}
            ELSE IF u = "bad" THEN {Errorf(c, "invalid request")}
            ELSE UNION { IF h = "err" THEN {Errorf(c, "headers error")}
                         ELSE { Classify(Send(c, cfg, "POST", "payload", rt), cfg) :
                                    rt \in RoundTrips }
                         : h \in Answers }
            : u \in URLs }

\* The adaptor's response-decode step on the bytes doRequest returned.
ConvertResponse(c, conv) ==
    LET d == [c EXCEPT !.decoded = TRUE, !.converter = conv]
    IN  IF d.payload = "good" THEN [d EXCEPT !.result = "dto"]
        ELSE Errorf(d, "decode error")

\* Relay.Chat
ChatResults(cfg) ==
    IF cfg.nil THEN {Errorf(Call("Chat", cfg), "provider config is required")}
    ELSE LET c == Call("Chat", cfg)
             conv == IF EqualFold(cfg.ChatProtocol, "openai") THEN "openai" ELSE "adp"
         IN  UNION { IF enc = "err" THEN {Errorf(c, "convert error")}
                     ELSE { IF d.errType # "nil" THEN d ELSE ConvertResponse(d, conv) :
                                d \in doRequest(c, cfg) }
                     : enc \in Answers }

MediaTypes == {"image", "video", "audio"}

\* Relay.Media; type "nil" stands for a nil request.
MediaResults(cfg, type) ==
    IF cfg.nil THEN {Errorf(Call("Media", cfg), "provider config is required")}
    ELSE IF type = "nil" THEN {Errorf(Call("Media", cfg), "media request is required")}
    ELSE IF type \notin {"image", "video"}
         THEN {Errorf(Call("Media", cfg), "unsupported media type")}
    ELSE LET c == Call("Media", cfg)
         IN  UNION { IF enc = "err" THEN {Errorf(c, "convert error")}
                     ELSE { IF d.errType # "nil" THEN d ELSE ConvertResponse(d, "adp") :
                                d \in doRequest(c, cfg) }
                     : enc \in Answers }

\* The response of TaskStatus, read and classified (relay.go:136-150).
TaskClassify(c) ==
    IF ~c.obtained THEN c
    ELSE LET d == CloseBody(c)
         IN  IF ~d.readOK THEN Errorf(d, "read error")
             ELSE IF TaskIsFailure(d.status)
                  THEN Errorf(d, "task status request failed with status")
             ELSE ConvertResponse(d, "adp")

\* Relay.TaskStatus; isTask and isTaskRequest are the type assertions.
TaskStatusResults(cfg, isTask, taskID, isTaskRequest) ==
    LET c == Call("TaskStatus", cfg)
    IN  IF cfg.nil THEN {Errorf(c, "provider config is required")}
        ELSE IF ~isTask THEN {Errorf(c, "task status not supported by adaptor")}
        ELSE IF taskID = "" THEN {Errorf(c, "task id is required")}
        ELSE UNION {
            IF u = "err" THEN {Errorf(c, "url error")}
            ELSE IF u = "" THEN {Errorf(c, "request url is empty")}
            ELSE UNION {
                LET t == [c EXCEPT !.taskReq = m]
                IN  IF m.err THEN {Errorf(t, "prepare error")}
                    ELSE IF u = "bad" THEN {Errorf(t, "invalid request")}
                    ELSE UNION { IF h = "err" THEN {Errorf(t, "headers error")}
                                 ELSE { TaskClassify(Send(t, cfg, m.method, m.body, rt)) :
                                            rt \in RoundTrips }
                                 : h \in Answers }
                : m \in (IF isTaskRequest THEN TaskRequests ELSE {DefaultTaskRequest}) }
            : u \in URLs }

\* The response of Stream (relay.go:200-214).
StreamClassify(c, cfg) ==
    IF ~c.obtained THEN c
    ELSE IF StreamIsFailure(c.status)
         THEN LLMError(CloseBody(c), c.status, c.payload, cfg.Name)
    ELSE [c EXCEPT !.result = "body"]

\* Relay.Stream; hasStream is streamAdaptor != nil.
StreamResults(cfg, hasStream) ==
    LET c == Call("Stream", cfg)
    IN  IF cfg.nil THEN {Errorf(c, "provider config is required")}
        ELSE IF ~hasStream THEN {Errorf(c, "stream adaptor is required")}
        ELSE UNION {
            IF p = "err" THEN {Errorf(c, "prepare error")}
            ELSE UNION {
                IF u = "err" THEN {Errorf(c, "url error")}
                ELSE IF u = "" THEN {Errorf(c, "request url is empty")}
                ELSE IF u = "bad" THEN {Errorf(c, "invalid request")}
                ELSE UNION { IF h = "err" THEN {Errorf(c, "headers error")}
                             ELSE { StreamClassify(Send(c, cfg, "POST", "payload", rt), cfg) :
                                        rt \in RoundTrips }
                             : h \in Answers }
                : u \in URLs }
            : p \in Answers }

\* The call returns: its record, and the Timeout it left on the client.
Finish(c) ==
    /\ last' = c
    /\ clientTimeout' = IF c.sent /\ c.client \in Clients
                        THEN [clientTimeout EXCEPT ![c.client] = c.timeout]
                        ELSE clientTimeout
    /\ UNCHANGED relayClient

RelayInit ==
    /\ relayClient \in {"none", "rc"}
    /\ clientTimeout \in [Clients -> {0, ClientTimeout}]
    /\ last = NoCall

\* The Relay is not used.
RelayIdle ==
    /\ relayClient = "none"
    /\ clientTimeout = [cl \in Clients |-> 0]
    /\ last = NoCall

-----------------------------------------------------------------------------
(* Concurrent Relay calls: each goroutine runs the client selection, the   *)
(* timeout assignment and client.Do of one call, one memory access at a    *)
(* time, on the clients of the Relay state above.                          *)

Goroutines == 1..NumGoroutines

\* The locals of one call: client is the selected client, own the Timeout
\* of a client this call constructed, used the Timeout client.Do ran with.
NoFlight == [pc |-> "idle", cfg |-> NilConfig, client |-> "none", own |-> 0, used |-> 0]

FlightIdle == flight = [g \in Goroutines |-> NoFlight]

\* Configs nobody mutates during the calls; they differ in Timeout and in
\* HTTPClient.
FlightConfigs ==
    { cfg \in PlainConfigs : cfg.Name = "p1" /\ cfg.Headers = NoHeaders }

\* client.Timeout as goroutine g sees it.
ReadTimeout(g) ==
    IF flight[g].client = "new" THEN flight[g].own ELSE clientTimeout[flight[g].client]

\* client.Timeout = t by goroutine g.
WriteTimeout(g, t, next) ==
    IF flight[g].client = "new"
    THEN /\ flight' = [flight EXCEPT ![g].own = t, ![g].pc = next]
         /\ UNCHANGED clientTimeout
    ELSE /\ flight' = [flight EXCEPT ![g].pc = next]
         /\ clientTimeout' = [clientTimeout EXCEPT ![flight[g].client] = t]

\* client := config.HTTPClient ... &http.Client{} (relay.go:238-244)
FlightSelect(g) ==
    /\ flight[g].pc = "idle"
    /\ \E cfg \in FlightConfigs :
           flight' = [flight EXCEPT ![g] = [NoFlight EXCEPT !.pc = "timeout", !.cfg = cfg,
                                                            !.client = SelectClient(cfg)]]
    /\ UNCHANGED <<relayVars, streamVars, adaptorVars, registryVars, codecVars, llmVars>>

\* if config.Timeout > 0 { client.Timeout = config.Timeout } (relay.go:245-246)
FlightSetTimeout(g) ==
    /\ flight[g].pc = "timeout"
    /\ flight[g].cfg.Timeout > 0
    /\ WriteTimeout(g, flight[g].cfg.Timeout, "do")
    /\ UNCHANGED <<relayClient, last, streamVars, adaptorVars, registryVars, codecVars, llmVars>>

\* else if client.Timeout == 0 (relay.go:247)
FlightTestTimeout(g) ==
    /\ flight[g].pc = "timeout"
    /\ flight[g].cfg.Timeout <= 0
    /\ flight' = [flight EXCEPT ![g].pc = IF ReadTimeout(g) = 0 THEN "default" ELSE "do"]
    /\ UNCHANGED <<relayVars, streamVars, adaptorVars, registryVars, codecVars, llmVars>>

\* client.Timeout = 60 * time.Second (relay.go:248)
FlightDefaultTimeout(g) ==
    /\ flight[g].pc = "default"
    /\ WriteTimeout(g, DefaultTimeout, "do")
    /\ UNCHANGED <<relayClient, last, streamVars, adaptorVars, registryVars, codecVars, llmVars>>

\* client.Do(req) reads client.Timeout for the deadline (relay.go:251)
FlightDo(g) ==
    /\ flight[g].pc = "do"
    /\ flight' = [flight EXCEPT ![g].pc = "done", ![g].used = ReadTimeout(g)]
    /\ UNCHANGED <<relayVars, streamVars, adaptorVars, registryVars, codecVars, llmVars>>

-----------------------------------------------------------------------------
(* Adaptors on a caller's config and request.  One caller keeps one        *)
(* *ProviderConfig and one *dto.ChatRequest and makes Chat and Stream      *)
(* calls with them; wire records the URL and the body of each call.        *)

Adaptors == {"google", "openai", "cohere"}

\* A Go map: nil, or a map with the entries m.
NilMap == [nil |-> TRUE, m |-> NoHeaders]

\* make(map[...]...)
MakeMap == [nil |-> FALSE, m |-> NoHeaders]

\* mp[k], the zero value if absent
MapGet(mp, k) == IF k \in DOMAIN mp.m THEN mp.m[k] ELSE ""

\* mp[k] = v on a map that is not nil
MapSet(mp, k, v) ==
    [nil |-> FALSE,
     m |-> [x \in DOMAIN mp.m \cup {k} |-> IF x = k THEN v ELSE mp.m[x]]]

HeaderMaps == { NilMap, MakeMap, MapSet(MakeMap, "X-Extra", "caller") }

OptionMaps == { NilMap, MakeMap, MapSet(MakeMap, "top_p", "0.9") }

\* GetRequestURL(ModeChat, config): the endpoint and, for Google, the action
GetRequestURL(a, headers) ==
    IF a = "google"
    THEN [endpoint |-> "models",
          action |-> IF MapGet(headers, "X-Stream") = "true"
                     THEN "streamGenerateContent" ELSE "generateContent"]
    ELSE [endpoint |-> "chat", action |-> ""]

\* ConvertChatRequest: the fields of the payload that come from
\* request.Stream and request.Options
ConvertChatRequest(a, stream, options) ==
    IF a = "google"
    THEN [k \in DOMAIN options.m \cap {"system_prompt", "top_p", "top_k"} |-> options.m[k]]
    ELSE IF a = "openai" /\ stream
         THEN [k \in DOMAIN options.m \cup {"stream"} |->
                  IF k \in DOMAIN options.m THEN options.m[k] ELSE "true"]
    ELSE options.m

\* copyOptions(options)
copyOptions(options) == [nil |-> FALSE, m |-> options.m]

\* PrepareStreamRequest: the body, and the caller's Headers and Options as
\* the call leaves them.  streamRequest := *request copies the struct, not
\* the map its Options field points to.
PrepareStreamRequest(a, headers, options) ==
    IF a = "google"
    THEN [headers |-> MapSet(IF headers.nil THEN MakeMap ELSE headers, "X-Stream", "true"),
          options |-> options,
          body |-> ConvertChatRequest(a, FALSE, options)]
    ELSE IF a = "openai"
    THEN LET streamOptions == MapSet(IF options.nil THEN MakeMap ELSE options,
                                     "stream", "true")
         IN  [headers |-> headers,
              options |-> IF options.nil THEN options ELSE streamOptions,
              body |-> ConvertChatRequest(a, TRUE, streamOptions)]
    ELSE [headers |-> headers,
          options |-> options,
          body |-> ConvertChatRequest(a, FALSE, MapSet(copyOptions(options), "stream", "true"))]

AdaptorInit ==
    /\ adp \in Adaptors
    /\ config \in [Headers : HeaderMaps]
    /\ request \in [Options : OptionMaps]
    /\ wire = <<>>

\* No caller.
AdaptorIdle ==
    /\ adp = "openai"
    /\ config = [Headers |-> NilMap]
    /\ request = [Options |-> NilMap]
    /\ wire = <<>>

\* Relay.Chat(ctx, adp, config, request): ConvertChatRequest, GetRequestURL
CallerChat ==
    /\ Len(wire) < MaxRelayCalls
    /\ wire' = Append(wire, [op |-> "Chat",
                             url |-> GetRequestURL(adp, config.Headers),
                             body |-> ConvertChatRequest(adp, FALSE, request.Options)])
    /\ UNCHANGED <<adp, config, request>>
    /\ UNCHANGED <<relayVars, streamVars, flightVars, registryVars, codecVars, llmVars>>

\* Relay.Stream(ctx, adp, adp, config, request): PrepareStreamRequest, then
\* GetRequestURL
CallerStream ==
    /\ Len(wire) < MaxRelayCalls
    /\ LET p == PrepareStreamRequest(adp, config.Headers, request.Options)
       IN  /\ config' = [config EXCEPT !.Headers = p.headers]
           /\ request' = [request EXCEPT !.Options = p.options]
           /\ wire' = Append(wire, [op |-> "Stream",
                                    url |-> GetRequestURL(adp, p.headers),
                                    body |-> p.body])
    /\ UNCHANGED adp
    /\ UNCHANGED <<relayVars, streamVars, flightVars, registryVars, codecVars, llmVars>>

-----------------------------------------------------------------------------
(* The provider registry.  Goroutines call GetProviderSpec, BuildAdaptor,  *)
(* RegisterProvider and RegisterAdaptor on the default registry, one call  *)
(* each; each call first runs GetDefaultRegistry.  A map entry is a struct *)
(* value: storing it writes its fields one after the other.                *)

Names == {"openai", "mine", "ghost"}

\* ProviderSpec; AdaptorFactory is whether the factory is non-nil.
ProviderSpec(name, type, factory) ==
    [present |-> TRUE, Name |-> name, Type |-> type, AdaptorFactory |-> factory]

\* r.specs[name] of a name that is not in the map: ProviderSpec{}, false
Absent == [present |-> FALSE, Name |-> "", Type |-> "", AdaptorFactory |-> FALSE]

\* The providers NewRegistry() knows.
Known ==
    [n \in Names |-> IF n = "openai" THEN ProviderSpec("openai", "openai", FALSE)
                     ELSE Absent]

\* The specs callers register: under a Name of their own, with a protocol
\* type that has a built-in adaptor or has none, and no factory.
SpecInputs ==
    { ProviderSpec("", t, FALSE) : t \in {"cohere", "custom"} }

Instances == 1..NumGoroutines

NoTask ==
    [pc |-> "idle", op |-> "none", name |-> "", arg |-> Absent, reg |-> 0,
     expect |-> FALSE, got |-> Absent, adaptor |-> "nil", spec |-> Absent,
     err |-> "nil"]

RegistryInit ==
    /\ once = "fresh"
    /\ instances = 0
    /\ defaultRegistry = 0
    /\ specs = [i \in Instances |-> [n \in Names |-> Absent]]
    /\ mu = [i \in Instances |-> [w |-> 0, r |-> {}]]
    /\ gor = [g \in Goroutines |-> NoTask]
    /\ history = [n \in Names |-> {}]
    /\ visible = {}

\* An initialisation that every caller who finds it unfinished runs.
OnceDo_Unguarded(state) == IF state = "done" THEN "skip" ELSE "run"

\* defaultRegistryOnce.Do(f): the first caller runs f, a caller that
\* arrives while f runs waits, a caller after that returns at once.
OnceDo(state) ==
    IF state = "fresh" THEN "run"
    ELSE IF state = "running" THEN "wait"
    ELSE "skip"

\* A read lock that a writer does not hold up.
RLockFree_Unguarded(m) == TRUE

\* r.mu.RLock() can proceed
RLockFree(m) == m.w = 0

\* r.mu.Lock() can proceed
LockFree(m) == m.w = 0 /\ m.r = {}

\* A switch whose default case returns no adaptor and no error.
AdaptorOfType_SilentDefault(type) ==
    IF type = "openai" THEN [adaptor |-> "OpenAIAdaptor", err |-> "nil"]
    ELSE IF type = "anthropic" THEN [adaptor |-> "AnthropicAdaptor", err |-> "nil"]
    ELSE IF type = "cohere" THEN [adaptor |-> "CohereAdaptor", err |-> "nil"]
    ELSE IF type = "ollama" THEN [adaptor |-> "OllamaAdaptor", err |-> "nil"]
    ELSE [adaptor |-> "nil", err |-> "nil"]

\* switch spec.Type (part_003:188-199)
AdaptorOfType(type) ==
    IF type = "openai" THEN [adaptor |-> "OpenAIAdaptor", err |-> "nil"]
    ELSE IF type = "anthropic" THEN [adaptor |-> "AnthropicAdaptor", err |-> "nil"]
    ELSE IF type = "cohere" THEN [adaptor |-> "CohereAdaptor", err |-> "nil"]
    ELSE IF type = "ollama" THEN [adaptor |-> "OllamaAdaptor", err |-> "nil"]
    ELSE [adaptor |-> "nil", err |-> "requires a custom adaptor"]

\* BuildAdaptor on what GetProviderSpec returned: adaptor, spec, error
BuildAdaptor(got) ==
    IF ~got.present THEN [adaptor |-> "nil", spec |-> Absent, err |-> "unknown provider"]
    ELSE IF got.AdaptorFactory
         THEN [adaptor |-> "AdaptorFactory()", spec |-> got, err |-> "nil"]
    ELSE LET a == AdaptorOfType(got.Type)
         IN  [adaptor |-> a.adaptor,
              spec |-> IF a.err = "nil" THEN got ELSE Absent,
              err |-> a.err]

\* A goroutine calls one of the four entry points.  RegisterAdaptor puts
\* its factory argument, not nil, into the spec; expect is whether the name is known
\* to NewRegistry or was registered by a call that has returned.
RegistryCall(g) ==
    /\ gor[g].pc = "idle"
    /\ \E op \in {"GetProviderSpec", "BuildAdaptor", "RegisterProvider", "RegisterAdaptor"} :
       \E n \in Names : \E sp \in SpecInputs :
           /\ op \in {"RegisterProvider", "RegisterAdaptor"} => n # "ghost"
           /\ op \in {"GetProviderSpec", "BuildAdaptor"} =>
                  sp = ProviderSpec("", "custom", FALSE)
           /\ gor' = [gor EXCEPT ![g] =
                  [NoTask EXCEPT !.pc = "once", !.op = op, !.name = n,
                                 !.arg = IF op = "RegisterAdaptor"
                                         THEN [sp EXCEPT !.AdaptorFactory = TRUE]
                                         ELSE sp,
                                 !.expect = (Known[n].present \/ n \in visible)]]
    /\ UNCHANGED <<once, instances, defaultRegistry, specs, mu, history, visible>>
    /\ UNCHANGED <<relayVars, streamVars, flightVars, adaptorVars, codecVars, llmVars>>

\* defaultRegistryOnce.Do: this caller is the one to run the function
OnceRun(g) ==
    /\ gor[g].pc = "once"
    /\ OnceDo(once) = "run"
    /\ once' = "running"
    /\ gor' = [gor EXCEPT ![g].pc = "new"]
    /\ UNCHANGED <<instances, defaultRegistry, specs, mu, history, visible>>
    /\ UNCHANGED <<relayVars, streamVars, flightVars, adaptorVars, codecVars, llmVars>>

\* defaultRegistry = NewRegistry(), and Do returns
NewRegistry(g) ==
    /\ gor[g].pc = "new"
    /\ instances < NumGoroutines
    /\ instances' = instances + 1
    /\ defaultRegistry' = instances + 1
    /\ specs' = [specs EXCEPT ![instances + 1] = Known]
    /\ once' = "done"
    /\ gor' = [gor EXCEPT ![g].pc = "return"]
    /\ UNCHANGED <<mu, history, visible>>
    /\ UNCHANGED <<relayVars, streamVars, flightVars, adaptorVars, codecVars, llmVars>>

\* defaultRegistryOnce.Do: the function has run
OnceSkip(g) ==
    /\ gor[g].pc = "once"
    /\ OnceDo(once) = "skip"
    /\ gor' = [gor EXCEPT ![g].pc = "return"]
    /\ UNCHANGED <<once, instances, defaultRegistry, specs, mu, history, visible>>
    /\ UNCHANGED <<relayVars, streamVars, flightVars, adaptorVars, codecVars, llmVars>>

\* return defaultRegistry
GetDefaultRegistry(g) ==
    /\ gor[g].pc = "return"
    /\ gor' = [gor EXCEPT ![g].pc = "have", ![g].reg = defaultRegistry]
    /\ UNCHANGED <<once, instances, defaultRegistry, specs, mu, history, visible>>
    /\ UNCHANGED <<relayVars, streamVars, flightVars, adaptorVars, codecVars, llmVars>>

\* RegisterProviderSpec: r.mu.Lock(); spec.Name = name
RegisterLock(g) ==
    /\ gor[g].pc = "have"
    /\ gor[g].op \in {"RegisterProvider", "RegisterAdaptor"}
    /\ LockFree(mu[gor[g].reg])
    /\ mu' = [mu EXCEPT ![gor[g].reg].w = g]
    /\ gor' = [gor EXCEPT ![g].pc = "store", ![g].arg.Name = gor[g].name]
    /\ history' = [history EXCEPT ![gor[g].name] =
                       @ \cup {[gor[g].arg EXCEPT !.Name = gor[g].name]}]
    /\ UNCHANGED <<once, instances, defaultRegistry, specs, visible>>
    /\ UNCHANGED <<relayVars, streamVars, flightVars, adaptorVars, codecVars, llmVars>>

\* r.specs[name] = spec, the first fields of the entry
RegisterStore(g) ==
    /\ gor[g].pc = "store"
    /\ specs' = [specs EXCEPT ![gor[g].reg][gor[g].name] =
                     [@ EXCEPT !.present = TRUE, !.Name = gor[g].arg.Name,
                               !.Type = gor[g].arg.Type]]
    /\ gor' = [gor EXCEPT ![g].pc = "stored"]
    /\ UNCHANGED <<once, instances, defaultRegistry, mu, history, visible>>
    /\ UNCHANGED <<relayVars, streamVars, flightVars, adaptorVars, codecVars, llmVars>>

\* r.specs[name] = spec, the rest of the entry; r.mu.Unlock(); return
RegisterUnlock(g) ==
    /\ gor[g].pc = "stored"
    /\ specs' = [specs EXCEPT ![gor[g].reg][gor[g].name].AdaptorFactory =
                     gor[g].arg.AdaptorFactory]
    /\ mu' = [mu EXCEPT ![gor[g].reg].w = 0]
    /\ visible' = visible \cup {gor[g].name}
    /\ gor' = [gor EXCEPT ![g].pc = "done"]
    /\ UNCHANGED <<once, instances, defaultRegistry, history>>
    /\ UNCHANGED <<relayVars, streamVars, flightVars, adaptorVars, codecVars, llmVars>>

\* GetProviderSpec: r.mu.RLock()
LookupRLock(g) ==
    /\ gor[g].pc = "have"
    /\ gor[g].op \in {"GetProviderSpec", "BuildAdaptor"}
    /\ RLockFree(mu[gor[g].reg])
    /\ mu' = [mu EXCEPT ![gor[g].reg].r = @ \cup {g}]
    /\ gor' = [gor EXCEPT ![g].pc = "load"]
    /\ UNCHANGED <<once, instances, defaultRegistry, specs, history, visible>>
    /\ UNCHANGED <<relayVars, streamVars, flightVars, adaptorVars, codecVars, llmVars>>

\* spec, ok := r.specs[name]; r.mu.RUnlock(); and what BuildAdaptor makes
\* of the spec
LookupReturn(g) ==
    /\ gor[g].pc = "load"
    /\ LET got == specs[gor[g].reg][gor[g].name]
           b == BuildAdaptor(got)
       IN  gor' = [gor EXCEPT ![g].pc = "done", ![g].got = got,
                              ![g].adaptor = IF gor[g].op = "BuildAdaptor"
                                             THEN b.adaptor ELSE "nil",
                              ![g].spec = IF gor[g].op = "BuildAdaptor"
                                          THEN b.spec ELSE got,
                              ![g].err = IF gor[g].op = "BuildAdaptor"
                                         THEN b.err ELSE "nil"]
    /\ mu' = [mu EXCEPT ![gor[g].reg].r = @ \ {g}]
    /\ UNCHANGED <<once, instances, defaultRegistry, specs, history, visible>>
    /\ UNCHANGED <<relayVars, streamVars, flightVars, adaptorVars, codecVars, llmVars>>

-----------------------------------------------------------------------------
(* Adaptor functions as pure functions.  input holds the arguments of one  *)
(* call and output what it returned.                                       *)

\* No adaptor function is being applied.
CodecIdle ==
    /\ input = [fn |-> "none"]
    /\ output = [done |-> FALSE]

-----------------------------------------------------------------------------
(* GetRequestURL.  A string is the sequence of its pieces: the scheme and  *)
(* host, then "/" or "/segment" pieces, then the pieces of what the        *)
(* adaptor appends.  Concatenation, TrimRight and HasSuffix work on the    *)
(* pieces as the Go functions work on the bytes, since every suffix the    *)
(* code tests starts with "/".                                             *)

Modes == {"chat", "image", "video"}

URLAdaptors == {"openai", "ali", "google"}

Models == {"qwen", "wan2.2-kf2v-flash"}

APIKeys == {"", "k"}

\* strings.TrimRight(s, "/")
RECURSIVE TrimRight(_)
TrimRight(s) ==
    IF s # <<>> /\ s[Len(s)] = "/" THEN TrimRight(SubSeq(s, 1, Len(s) - 1)) ELSE s

\* strings.HasSuffix(s, suffix)
HasSuffix(s, suffix) ==
    /\ Len(suffix) <= Len(s)
    /\ SubSeq(s, Len(s) - Len(suffix) + 1, Len(s)) = suffix

\* strings.TrimSuffix(s, suffix)
TrimSuffix(s, suffix) ==
    IF HasSuffix(s, suffix) THEN SubSeq(s, 1, Len(s) - Len(suffix)) ELSE s

\* openAISuffix(mode)
openAISuffix(mode) ==
    CASE mode = "chat" -> <<"/chat", "/completions">>
      [] mode = "image" -> <<"/images", "/generations">>
      [] mode = "video" -> <<"/videos", "/generations">>

\* trimOpenAISuffix(path): the first of the three suffixes that matches
trimOpenAISuffix(path) ==
    IF HasSuffix(path, openAISuffix("chat")) THEN TrimSuffix(path, openAISuffix("chat"))
    ELSE IF HasSuffix(path, openAISuffix("image")) THEN TrimSuffix(path, openAISuffix("image"))
    ELSE IF HasSuffix(path, openAISuffix("video")) THEN TrimSuffix(path, openAISuffix("video"))
    ELSE path

\* url.Parse(base): Scheme and Host are the first piece if it carries a
\* scheme, the rest is the Path
urlParse(base) ==
    IF base # <<>> /\ base[1] = "https://h"
    THEN [Scheme |-> "https", Host |-> "h", Path |-> Tail(base)]
    ELSE [Scheme |-> "", Host |-> "", Path |-> base]

\* parsed.String()
urlString(parsed) == <<"https://h">> \o parsed.Path

\* buildOpenAIRequestURLFallback(base, suffix)
buildOpenAIRequestURLFallback(base, suffix) ==
    LET b == TrimRight(base)
    IN  IF HasSuffix(b, suffix) THEN b
        ELSE TrimRight(trimOpenAISuffix(b)) \o suffix

\* buildOpenAIRequestURL(base, mode)
buildOpenAIRequestURL(base, mode) ==
    LET suffix == openAISuffix(mode)
        parsed == urlParse(base)
        path == TrimRight(parsed.Path)
    IN  IF parsed.Scheme = "" \/ parsed.Host = ""
        THEN buildOpenAIRequestURLFallback(base, suffix)
        ELSE IF HasSuffix(path, suffix) THEN urlString(parsed)
        ELSE urlString([parsed EXCEPT !.Path = TrimRight(trimOpenAISuffix(path)) \o suffix])

\* base := strings.TrimRight(config.BaseURL, "/"), then the adaptor's
\* default; the adaptor's own BaseURL field is empty
BaseOf(cfg, default) ==
    IF TrimRight(cfg.BaseURL) = <<>> THEN default ELSE TrimRight(cfg.BaseURL)

\* OpenAIAdaptor.GetRequestURL
OpenAIGetRequestURL(mode, cfg) ==
    buildOpenAIRequestURL(BaseOf(cfg, <<"https://api.openai.com", "/v1">>), mode)

\* aliVideoEndpointForModel(model)
aliVideoEndpointForModel(model) ==
    IF model \in {"wan2.2-kf2v-flash", "wanx2.1-kf2v-plus"}
    THEN <<"/api", "/v1", "/services", "/aigc", "/image2video", "/video-synthesis">>
    ELSE <<"/api", "/v1", "/services", "/aigc", "/video-generation", "/video-synthesis">>

\* AliAdaptor.GetRequestURL
AliGetRequestURL(mode, cfg) ==
    LET base == BaseOf(cfg, <<"https://dashscope.aliyuncs.com">>)
    IN  CASE mode = "chat" -> base \o <<"/compatible-mode", "/v1", "/chat", "/completions">>
          [] mode = "video" -> base \o aliVideoEndpointForModel(cfg.Model)
          [] mode = "image" ->
                 base \o <<"/api", "/v1", "/services", "/aigc",
                           "/multimodal-generation", "/generation">>

\* GoogleAdaptor.GetRequestURL; config.Headers carries no X-Stream
GoogleGetRequestURL(mode, cfg) ==
    LET base == BaseOf(cfg, <<"https://generativelanguage.googleapis.com", "/v1beta">>)
        action == IF mode \in {"image", "video"} THEN "predict" ELSE "generateContent"
        url == base \o <<"/models", "/", cfg.Model, ":", action>>
    IN  IF cfg.APIKey # "" THEN url \o <<"?key=", cfg.APIKey>> ELSE url

\* adaptor.GetRequestURL(mode, config)
RequestURL(a, mode, cfg) ==
    CASE a = "openai" -> OpenAIGetRequestURL(mode, cfg)
      [] a = "ali" -> AliGetRequestURL(mode, cfg)
      [] a = "google" -> GoogleGetRequestURL(mode, cfg)

\* The values of config.BaseURL: empty, a bare host with or without a
\* scheme, a host with a path, each with or without a trailing slash or
\* an OpenAI suffix.
BaseURLs ==
    {<<>>} \cup
    { h \o pre \o tail :
        h \in {<<"https://h">>, <<"h">>},
        pre \in {<<>>, <<"/v1">>},
        tail \in {<<>>, <<"/">>, openAISuffix("chat"), openAISuffix("chat") \o <<"/">>,
                  openAISuffix("image")} }

\* adaptor.GetRequestURL(mode, config) on the caller's config
ResolveURL ==
    /\ input.fn = "GetRequestURL"
    /\ ~output.done
    /\ output' = [done |-> TRUE, urls |-> <<RequestURL(input.adaptor, input.mode, input)>>]
    /\ UNCHANGED <<input, llmVars>>
    /\ UNCHANGED <<relayVars, streamVars, flightVars, adaptorVars, registryVars>>

\* The caller stores the URL it got as config.BaseURL and calls
\* adaptor.GetRequestURL(mode, config) again.
ResolveAgain ==
    /\ input.fn = "GetRequestURL"
    /\ output.done
    /\ Len(output.urls) < MaxResolves
    /\ LET url == output.urls[Len(output.urls)]
       IN  output' = [output EXCEPT
                        !.urls = Append(@, RequestURL(input.adaptor, input.mode,
                                                      [input EXCEPT !.BaseURL = url]))]
    /\ UNCHANGED <<input, llmVars>>
    /\ UNCHANGED <<relayVars, streamVars, flightVars, adaptorVars, registryVars>>

-----------------------------------------------------------------------------
(* ConvertChatRequest.  The payload before json.Marshal: its message list, *)
(* its system instruction (Google), its other top-level fields and its     *)
(* parameters object (Ali).  Option values and contents are strings.       *)

ChatAdaptors == {"openai", "google", "ali", "cohere", "ollama"}

Message(role, content) == [Role |-> role, Content |-> content]

MessageLists ==
    { <<>>,
      <<Message("user", "hi")>>,
      <<Message("system", "sys"), Message("user", "hi")>>,
      <<Message("user", "hi"), Message("assistant", "yo")>> }

Prompts == {"", "p"}

OptionKeys == {"system_prompt", "structured_messages", "top_p", "max_tokens",
               "max_completion_tokens"}

\* request.Options: every set of keys, a value per key
ChatOptions ==
    { [k \in ks |-> IF k = "system_prompt" THEN "S" ELSE "v"] : ks \in SUBSET OptionKeys }

\* request.Options[key].(string), "" if the key is absent
OptionString(options, key) == IF key \in DOMAIN options THEN options[key] ELSE ""

\* payload[k] = v for every entry of over
Merge(base, over) ==
    [k \in DOMAIN base \cup DOMAIN over |-> IF k \in DOMAIN over THEN over[k] ELSE base[k]]

\* delete(payload, key)
Delete(payload, keys) == [k \in DOMAIN payload \ keys |-> payload[k]]

Payload(messages, system, fields, parameters) ==
    [messages |-> messages, system |-> system, fields |-> fields, parameters |-> parameters]

\* normalizeMessages(request)
normalizeMessages(req) ==
    LET messages == IF Len(req.Messages) = 0 /\ req.Prompt # ""
                    THEN <<Message("user", req.Prompt)>>
                    ELSE req.Messages
        systemPrompt == OptionString(req.Options, "system_prompt")
    IN  IF systemPrompt # "" THEN <<Message("system", systemPrompt)>> \o messages
        ELSE messages

\* shouldSkipOption(key)
shouldSkipOption(key) == key \in {"system_prompt", "structured_messages"}

\* shouldSkipCohereOption(key)
shouldSkipCohereOption(key) == key \in {"system_prompt", "structured_messages"}

\* OpenAIAdaptor.ConvertChatRequest
OpenAIConvertChatRequest(req) ==
    LET own == Merge(Merge([k \in {"model"} |-> "m"],
                           IF req.Stream THEN [k \in {"stream"} |-> "true"] ELSE <<>>),
                     IF req.MaxTokens # "" THEN [k \in {"max_tokens"} |-> req.MaxTokens]
                     ELSE <<>>)
        kept == [k \in {x \in DOMAIN req.Options : ~shouldSkipOption(x)} |-> req.Options[k]]
        merged == Merge(own, kept)
    IN  Payload(normalizeMessages(req), "",
                IF "max_completion_tokens" \in DOMAIN merged
                THEN Delete(merged, {"max_tokens"}) ELSE merged,
                <<>>)

\* The loop of GoogleAdaptor.ConvertChatRequest over request.Messages
RECURSIVE GoogleContents(_)
GoogleContents(messages) ==
    IF messages = <<>> THEN <<>>
    ELSE LET msg == Head(messages)
             role == IF msg.Role = "assistant" THEN "model" ELSE msg.Role
         IN  IF role = "system" THEN GoogleContents(Tail(messages))
             ELSE <<Message(role, msg.Content)>> \o GoogleContents(Tail(messages))

\* GoogleAdaptor.ConvertChatRequest; the fields are those of
\* generationConfig
GoogleConvertChatRequest(req) ==
    Payload(GoogleContents(req.Messages),
            OptionString(req.Options, "system_prompt"),
            <<>>,
            Merge(IF req.MaxTokens # "" THEN [k \in {"maxOutputTokens"} |-> req.MaxTokens]
                  ELSE <<>>,
                  IF "top_p" \in DOMAIN req.Options
                  THEN [k \in {"topP"} |-> req.Options["top_p"]] ELSE <<>>))

\* AliAdaptor.ConvertChatRequest
AliConvertChatRequest(req) ==
    Payload(req.Messages, "", [k \in {"model"} |-> "m"],
            IF req.Stream THEN [k \in {"incremental_output"} |-> "true"] ELSE <<>>)

\* CohereAdaptor.ConvertChatRequest
CohereConvertChatRequest(req) ==
    Payload(IF Len(req.Messages) > 0 THEN req.Messages
            ELSE <<Message("user", req.Prompt)>>,
            "",
            Merge([k \in {"model"} |-> "m"],
                  [k \in {x \in DOMAIN req.Options : ~shouldSkipCohereOption(x)} |->
                      req.Options[k]]),
            <<>>)

\* flattenMessages(messages): one "role: content" line per message;
\* strings.TrimSpace drops the last newline
RECURSIVE flattenMessages(_)
flattenMessages(messages) ==
    IF messages = <<>> THEN ""
    ELSE LET line == Head(messages).Role \o ": " \o Head(messages).Content
         IN  IF Len(messages) = 1 THEN line
             ELSE line \o "\n" \o flattenMessages(Tail(messages))

\* OllamaAdaptor.ConvertChatRequest: the payload has a prompt, no messages
OllamaConvertChatRequest(req) ==
    Payload(<<>>, "",
            Merge([k \in {"model", "prompt"} |->
                      IF k = "model" THEN "m"
                      ELSE IF req.Prompt = "" /\ Len(req.Messages) > 0
                           THEN flattenMessages(req.Messages)
                           ELSE req.Prompt],
                  req.Options),
            <<>>)

\* adaptor.ConvertChatRequest(ctx, config, request)
ChatPayload(a, req) ==
    CASE a = "openai" -> OpenAIConvertChatRequest(req)
      [] a = "google" -> GoogleConvertChatRequest(req)
      [] a = "ali" -> AliConvertChatRequest(req)
      [] a = "cohere" -> CohereConvertChatRequest(req)
      [] a = "ollama" -> OllamaConvertChatRequest(req)

\* adaptor.ConvertChatRequest on the caller's request
EncodeChat ==
    /\ input.fn = "ConvertChatRequest"
    /\ ~output.done
    /\ output' = [done |-> TRUE, payload |-> ChatPayload(input.adaptor, input)]
    /\ UNCHANGED <<input, llmVars>>
    /\ UNCHANGED <<relayVars, streamVars, flightVars, adaptorVars, registryVars>>

-----------------------------------------------------------------------------
(* ConvertChatResponse and ConvertMediaResponse on a response body that    *)
(* arrived with HTTP status 200.  A body is what json.Unmarshal can find   *)
(* in it: whether it is JSON at all, the string field code (Ali), the      *)
(* integer field code (Jimeng), message, whether it has an error object    *)
(* (OpenAI), how many choices, and data.task_id.                           *)

DecodeAdaptors == {"ali", "jimeng", "openai"}

ProviderNames == {"p1", "p2"}

Bodies ==
    [json : BOOLEAN, code : {"", "Throttling"}, vendorCode : {0, JimengSuccess, 50411},
     message : {"", "quota"}, error : BOOLEAN, choices : {0, 1}, task_id : {"T1"}]

\* What a decode step returns: a DTO, a *dto.LLMError or another error.
DTO(choices, taskID, status) ==
    [kind |-> "dto", Code |-> 0, Message |-> "", Provider |-> "",
     Choices |-> choices, TaskID |-> taskID, Status |-> status]

DecodeLLMError(code, message, provider) ==
    [kind |-> "llmerror", Code |-> code, Message |-> message, Provider |-> provider,
     Choices |-> 0, TaskID |-> "", Status |-> ""]

DecodeError(message) ==
    [kind |-> "error", Code |-> 0, Message |-> message, Provider |-> "",
     Choices |-> 0, TaskID |-> "", Status |-> ""]

\* AliAdaptor.ConvertChatResponse
AliConvertChatResponse(cfg, b) ==
    IF ~b.json THEN DecodeError("json")
    ELSE IF b.code # "" THEN DecodeLLMError(StatusBadRequest, b.message, cfg.Name)
    ELSE DTO(b.choices, "", "")

\* JimengAdaptor.ConvertMediaResponse
JimengConvertMediaResponse(cfg, mode, b) ==
    IF mode # "video" THEN DecodeError("unsupported media mode for Jimeng")
    ELSE IF ~b.json THEN DecodeError("json")
    ELSE IF b.vendorCode # JimengSuccess
         THEN DecodeLLMError(StatusBadRequest, b.message, cfg.Name)
    ELSE DTO(0, b.task_id, "submitted")

\* OpenAIAdaptor.ConvertChatResponse: json.Unmarshal into dto.ChatResponse,
\* which has no error field
OpenAIConvertChatResponse(cfg, b) ==
    IF ~b.json THEN DecodeError("json") ELSE DTO(b.choices, "", "")

\* The decode step of Relay.Chat and Relay.Media
DecodeResponse(a, cfg, mode, b) ==
    CASE a = "ali" -> AliConvertChatResponse(cfg, b)
      [] a = "jimeng" -> JimengConvertMediaResponse(cfg, mode, b)
      [] a = "openai" -> OpenAIConvertChatResponse(cfg, b)

\* adaptor.ConvertChatResponse / ConvertMediaResponse on the body read
Decode ==
    /\ input.fn = "ConvertResponse"
    /\ ~output.done
    /\ output' = [done |-> TRUE,
                  result |-> DecodeResponse(input.adaptor, input, input.mode, input.body)]
    /\ UNCHANGED <<input, llmVars>>
    /\ UNCHANGED <<relayVars, streamVars, flightVars, adaptorVars, registryVars>>

-----------------------------------------------------------------------------
(* ConvertMediaRequest.  request.Extra is a map[string]interface{}: a      *)
(* value has a dynamic type, a content v, and marshals tells whether       *)
(* json.Marshal accepts it.  The result records which Go value was         *)
(* marshalled into the body - the raw payload object, the computed         *)
(* payload or the fallback struct - and the top-level keys of a computed   *)
(* one; a panic of the call is a result of its own.                        *)

MediaAdaptors == {"openai", "ali", "jimeng"}

Value(type, v, marshals) == [type |-> type, v |-> v, marshals |-> marshals]

\* What each key of Extra may hold.
ExtraValues(k) ==
    CASE k = "req_key" -> {Value("string", "x", TRUE)}
      [] k = "image_url" -> {Value("string", "u", TRUE), Value("string", "", TRUE)}
      [] k = "image_urls" -> {Value("[]string", "u1,u2", TRUE), Value("[]string", "", TRUE),
                              Value("[]interface{}", "u1,u2", TRUE)}
      [] k = "payload" -> {Value("object", "raw", TRUE), Value("object", "raw", FALSE),
                           Value("string", "raw", TRUE)}
      [] k = "frames" -> {Value("int", "25", TRUE)}

ExtraKeys == {"req_key", "image_url", "image_urls", "payload", "frames"}

\* The zero value of interface{}
NilValue == Value("nil", "", TRUE)

\* request.Extra: nil, or a map over some of the keys
Extras ==
    {[nil |-> TRUE, m |-> <<>>]} \cup
    { [nil |-> FALSE, m |-> f] :
        f \in UNION { {g \in [ks -> UNION {ExtraValues(k) : k \in ks}] :
                          \A k \in ks : g[k] \in ExtraValues(k)} :
                      ks \in SUBSET ExtraKeys } }

\* extra[key], nil if the key is absent or the map is nil
ExtraGet(extra, key) == IF key \in DOMAIN extra.m THEN extra.m[key] ELSE NilValue

\* getStringExtra(extra, key)
getStringExtra(extra, key) ==
    IF ExtraGet(extra, key).type = "string" THEN ExtraGet(extra, key).v ELSE ""

\* extractPayloadMap(extra), and its copies openAIExtractPayloadMap and
\* aliExtractPayloadMap: the payload object, or nil
extractPayloadMap(extra) ==
    IF ExtraGet(extra, "payload").type = "object" THEN ExtraGet(extra, "payload")
    ELSE NilValue

\* What ConvertMediaRequest returns.
Bytes(marshalled, value, keys) ==
    [kind |-> "bytes", marshalled |-> marshalled, value |-> value, keys |-> keys]

EncodeError(message) ==
    [kind |-> "error", marshalled |-> "none", value |-> message, keys |-> {}]

Panic(message) ==
    [kind |-> "panic", marshalled |-> "none", value |-> message, keys |-> {}]

\* json.Marshal of a map holding the values of extra
Marshals(extra) == \A k \in DOMAIN extra.m : extra.m[k].marshals

\* openAIMarshalPayloadWithFallback(payloadMap, fallback), with payloadMap
\* the raw payload or, without one, the struct's fields and Extra's entries
OpenAIConvertMediaRequest(mode, req) ==
    LET raw == extractPayloadMap(req.Extra)
        fallback == {"model", "prompt"}
    IN  IF raw.type = "object"
        THEN IF raw.marshals THEN Bytes("payload", raw.v, {})
             ELSE Bytes("fallback", "computed", fallback)
        ELSE IF Marshals(req.Extra)
             THEN Bytes("computed", "computed", fallback \cup DOMAIN req.Extra.m)
             ELSE Bytes("fallback", "computed", fallback)

\* AliAdaptor.ConvertMediaRequest: the fallback's parameters hold every
\* entry of Extra
AliConvertMediaRequest(mode, req) ==
    LET raw == extractPayloadMap(req.Extra)
    IN  IF mode = "image" THEN EncodeError("image mode not supported for ali adaptor")
        ELSE IF raw.type = "object" /\ raw.marshals THEN Bytes("payload", raw.v, {})
        ELSE IF Marshals(req.Extra)
             THEN Bytes("computed", "computed", {"model", "input", "parameters"})
             ELSE EncodeError("json: unsupported type")

\* JimengAdaptor.ConvertMediaRequest.  request.Extra["image_urls"].([]string)
\* is a type assertion without the ok form: it panics unless the value is
\* a []string.
JimengConvertMediaRequest(mode, req) ==
    LET raw == extractPayloadMap(req.Extra)
        imgURL == getStringExtra(req.Extra, "image_url")
        urls == ExtraGet(req.Extra, "image_urls")
        hasURLs == imgURL # "" \/ urls.v # ""
    IN  IF mode # "video" THEN EncodeError("unsupported media mode for Jimeng")
        ELSE IF imgURL = "" /\ urls.type # "[]string"
             THEN Panic("interface conversion")
        ELSE IF raw.type = "object"
             THEN IF raw.marshals THEN Bytes("payload", raw.v, {})
                  ELSE EncodeError("json: unsupported type")
        ELSE Bytes("computed", "computed",
                   {"req_key", "prompt", "seed"}
                       \cup (IF ExtraGet(req.Extra, "frames").type = "int"
                             THEN {"frames"} ELSE {})
                       \cup (IF hasURLs THEN {"image_urls"} ELSE {}))

\* adp.ConvertMediaRequest(ctx, config, mode, request)
MediaBody(a, mode, req) ==
    CASE a = "openai" -> OpenAIConvertMediaRequest(mode, req)
      [] a = "ali" -> AliConvertMediaRequest(mode, req)
      [] a = "jimeng" -> JimengConvertMediaRequest(mode, req)

\* The vendor's answer to a submitted task: its success code and task T1.
Submitted ==
    [json |-> TRUE, code |-> "", vendorCode |-> JimengSuccess, message |-> "",
     error |-> FALSE, choices |-> 0, task_id |-> "T1"]

\* Relay.Media up to the request body: adp.ConvertMediaRequest
EncodeMedia ==
    /\ input.fn = "ConvertMediaRequest"
    /\ ~output.done
    /\ output' = [done |-> TRUE, answered |-> FALSE,
                  result |-> MediaBody(input.adaptor, input.mode, input),
                  response |-> DecodeError("")]
    /\ UNCHANGED <<input, llmVars>>
    /\ UNCHANGED <<relayVars, streamVars, flightVars, adaptorVars, registryVars>>

\* Relay.Media from the body on, with Jimeng: doRequest, the vendor accepts
\* the task, adp.ConvertMediaResponse.  There is no body after an error or
\* a panic.
MediaAnswer ==
    /\ input.fn = "ConvertMediaRequest"
    /\ input.adaptor = "jimeng"
    /\ output.done
    /\ ~output.answered
    /\ output.result.kind = "bytes"
    /\ output' = [output EXCEPT
                    !.answered = TRUE,
                    !.response = JimengConvertMediaResponse(input, input.mode, Submitted)]
    /\ UNCHANGED <<input, llmVars>>
    /\ UNCHANGED <<relayVars, streamVars, flightVars, adaptorVars, registryVars>>

-----------------------------------------------------------------------------
(* WrapChatWithOpenAI.  An adaptor value is the sequence of its layers,    *)
(* outermost first: wrappers, then the concrete adaptor; the nil adaptor   *)
(* is the empty sequence.  A layer has its dynamic type, the provider it   *)
(* was written for, and the optional interfaces the concrete type has.     *)

Capabilities == {"StreamAdaptor", "TaskAdaptor", "TaskRequestAdaptor"}

Layer(type, name, caps) == [type |-> type, name |-> name, caps |-> caps]

\* &OpenAIAdaptor{}: it streams
OpenAIAdaptor == <<Layer("*OpenAIAdaptor", "openai", {"StreamAdaptor"})>>

\* The concrete adaptors a caller may hand in, and nil.
BaseAdaptors ==
    {<<>>, OpenAIAdaptor} \cup
    { <<Layer("concrete", n, caps)>> : n \in {"ali", "jimeng", "google"},
                                      caps \in SUBSET Capabilities }

\* The methods of each optional interface (interface.go).
MethodsOf(cap) ==
    CASE cap = "StreamAdaptor" -> {"PrepareStreamRequest", "ParseStreamResponse"}
      [] cap = "TaskAdaptor" -> {"GetTaskStatusURL", "ConvertTaskStatusResponse"}
      [] cap = "TaskRequestAdaptor" -> {"PrepareTaskStatusRequest"}

\* The methods declared on *openAIChatWrapper
WrapperMethods ==
    {"IsOpenAIProtocol", "GetRequestURL", "SetupHeaders", "ConvertChatRequest",
     "ConvertChatResponse", "ConvertImageRequest", "ConvertImageResponse",
     "ConvertVideoRequest", "ConvertVideoResponse"}

\* The method set of an adaptor value's dynamic type
MethodSet(a) ==
    IF a = <<>> THEN {}
    ELSE CASE a[1].type = "*openAIChatWrapper" -> WrapperMethods
           [] a[1].type = "*openAIChatStreamWrapper" ->
                  WrapperMethods \cup MethodsOf("StreamAdaptor")
           [] OTHER ->
                  {"GetRequestURL", "SetupHeaders", "ConvertChatRequest",
                   "ConvertChatResponse", "ConvertMediaRequest", "ConvertMediaResponse"}
                      \cup UNION {MethodsOf(c) : c \in a[1].caps}

\* adp.(I): the type assertion to an optional interface
Implements(a, cap) == a # <<>> /\ MethodsOf(cap) \subseteq MethodSet(a)

\* WrapChatWithOpenAI(base)
WrapChatWithOpenAI(base) ==
    IF base = <<>> THEN base
    ELSE IF base[1].type = "*OpenAIAdaptor" THEN base
    ELSE IF base[1].type = "*openAIChatWrapper" THEN base
    ELSE IF Implements(base, "StreamAdaptor")
         THEN <<Layer("*openAIChatStreamWrapper", "openai", {})>> \o base
    ELSE <<Layer("*openAIChatWrapper", "openai", {})>> \o base

\* The concrete adaptor a forwarded call ends at.
Innermost(a) == a[Len(a)]

\* Relay.TaskStatus(ctx, adp, config, taskID) up to the request: the error
\* it returns, or whose URL it asks and the method it uses
RelayTaskStatus(a, taskID) ==
    IF a = <<>> \/ ~Implements(a, "TaskAdaptor")
    THEN [err |-> "task status not supported by adaptor", url |-> "", method |-> ""]
    ELSE IF taskID = ""
    THEN [err |-> "task id is required", url |-> "", method |-> ""]
    ELSE [err |-> "", url |-> Innermost(a).name,
          method |-> IF Implements(a, "TaskRequestAdaptor") THEN "custom" ELSE "GET"]

NotCalled == [err |-> "not called", url |-> "", method |-> ""]

\* adp = WrapChatWithOpenAI(base)
Wrap ==
    /\ input.fn = "WrapChatWithOpenAI"
    /\ ~output.done
    /\ output' = [done |-> TRUE, wrapped |-> WrapChatWithOpenAI(input.base),
                  again |-> <<>>, rewrapped |-> FALSE,
                  ofBase |-> NotCalled, ofWrapped |-> NotCalled]
    /\ UNCHANGED <<input, llmVars>>
    /\ UNCHANGED <<relayVars, streamVars, flightVars, adaptorVars, registryVars>>

\* WrapChatWithOpenAI(adp) on the adaptor the first call returned
WrapAgain ==
    /\ input.fn = "WrapChatWithOpenAI"
    /\ output.done
    /\ ~output.rewrapped
    /\ output' = [output EXCEPT !.rewrapped = TRUE,
                                !.again = WrapChatWithOpenAI(output.wrapped)]
    /\ UNCHANGED <<input, llmVars>>
    /\ UNCHANGED <<relayVars, streamVars, flightVars, adaptorVars, registryVars>>

\* Relay.TaskStatus with the base adaptor and with the wrapped one
WrappedTaskStatus ==
    /\ input.fn = "WrapChatWithOpenAI"
    /\ output.done
    /\ output.ofBase = NotCalled
    /\ output' = [output EXCEPT !.ofBase = RelayTaskStatus(input.base, input.taskID),
                                !.ofWrapped = RelayTaskStatus(output.wrapped, input.taskID)]
    /\ UNCHANGED <<input, llmVars>>
    /\ UNCHANGED <<relayVars, streamVars, flightVars, adaptorVars, registryVars>>

-----------------------------------------------------------------------------
(* LLMImpl.Generate.  Goroutines share one *LLMImpl and call Generate on   *)
(* it, one call each.                                                      *)

\* No Generate call.
LLMIdle ==
    /\ llmOptions = ""
    /\ gen = [g \in Goroutines |-> [pc |-> "none"]]

SystemPrompts == {"", "S1", "S2"}

\* An error value: nil, a *dto.LLMError of the vendor, or ctx.Err().
NoError == [kind |-> "nil", Code |-> 0, Message |-> "", Provider |-> ""]

APIError(code) ==
    [kind |-> "api", Code |-> code,
     Message |-> IF code = 429 THEN "rate limited" ELSE "overloaded", Provider |-> "p1"]

CtxError == [kind |-> "ctx", Code |-> 0, Message |-> "context canceled", Provider |-> ""]

\* What l.relay.Chat can return to an attempt.
ChatOutcomes(cancelled) ==
    {NoError, APIError(429), APIError(500)} \cup (IF cancelled THEN {CtxError} ELSE {})

\* What Generate returns: the result, ctx.Err() out of wait, or
\* fmt.Errorf("failed to generate after %d attempts", l.MaxRetries+1),
\* an error that wraps nothing.
NotReturned == [kind |-> "none", attempts |-> 0, cause |-> NoError]

Generated == [kind |-> "ok", attempts |-> 0, cause |-> NoError]

Cancelled == [kind |-> "ctx", attempts |-> 0, cause |-> CtxError]

FailedAfter(n, lastErr) == [kind |-> "error", attempts |-> n, cause |-> NoError]

\* if attempt < l.MaxRetries: wait before the next attempt
ShouldWait_Always(attempt) == TRUE

ShouldWait(attempt) == attempt < MaxRetries

\* The options attemptGenerate copies out of l.Options
CopiedOptions == IF llmOptions = "" THEN <<>> ELSE [k \in {"system_prompt"} |-> llmOptions]

GenerateInit ==
    /\ llmOptions = ""
    /\ gen \in [Goroutines -> { [pc |-> "call", SystemPrompt |-> sp, attempt |-> 0,
                                 ctxDone |-> FALSE, sleepLeft |-> 0, sent |-> <<>>,
                                 outcomes |-> <<>>, waits |-> <<>>, ret |-> NotReturned] :
                                sp \in SystemPrompts }]

\* Generate, up to the loop: l.SetOption("system_prompt", ...) if the
\* prompt has a system prompt
GenerateCall(g) ==
    /\ gen[g].pc = "call"
    /\ llmOptions' = IF gen[g].SystemPrompt # "" THEN gen[g].SystemPrompt ELSE llmOptions
    /\ gen' = [gen EXCEPT ![g].pc = "loop"]
    /\ UNCHANGED <<relayVars, streamVars, flightVars, adaptorVars, registryVars, codecVars>>

\* attemptGenerate up to l.relay.Chat: the request carries the options
\* copied from l.Options; sent records the messages the OpenAI encoder
\* makes of it
AttemptGenerate(g) ==
    /\ gen[g].pc = "loop"
    /\ gen[g].attempt <= MaxRetries
    /\ gen' = [gen EXCEPT
                 ![g].pc = "chat",
                 ![g].sent = Append(@, normalizeMessages([Messages |-> <<>>, Prompt |-> "p",
                                                          Options |-> CopiedOptions]))]
    /\ UNCHANGED <<llmOptions, relayVars, streamVars, flightVars, adaptorVars, registryVars,
                   codecVars>>

\* l.relay.Chat returns; on an error Generate waits if attempts are left,
\* and otherwise leaves the loop and returns
ChatReturns(g) ==
    /\ gen[g].pc = "chat"
    /\ \E err \in ChatOutcomes(gen[g].ctxDone) :
           LET outcomes == Append(gen[g].outcomes, err)
           IN  IF err = NoError
               THEN gen' = [gen EXCEPT ![g].pc = "done", ![g].outcomes = outcomes,
                                       ![g].ret = Generated]
               ELSE IF ShouldWait(gen[g].attempt)
               THEN gen' = [gen EXCEPT ![g].pc = "wait", ![g].outcomes = outcomes,
                                       ![g].sleepLeft = RetryDelay,
                                       ![g].waits = Append(@, 0)]
               ELSE gen' = [gen EXCEPT ![g].pc = "done", ![g].outcomes = outcomes,
                                       ![g].attempt = @ + 1,
                                       ![g].ret = FailedAfter(MaxRetries + 1, err)]
    /\ UNCHANGED <<llmOptions, relayVars, streamVars, flightVars, adaptorVars, registryVars,
                   codecVars>>

\* One unit of time.After(l.RetryDelay) passes while ctx is not done.
WaitTick(g) ==
    /\ gen[g].pc = "wait"
    /\ gen[g].sleepLeft > 0
    /\ ~gen[g].ctxDone
    /\ gen' = [gen EXCEPT ![g].sleepLeft = @ - 1,
                          ![g].waits[Len(gen[g].waits)] = @ + 1]
    /\ UNCHANGED <<llmOptions, relayVars, streamVars, flightVars, adaptorVars, registryVars,
                   codecVars>>

\* case <-time.After(l.RetryDelay): the next attempt, or the end of the loop
WaitElapsed(g) ==
    /\ gen[g].pc = "wait"
    /\ gen[g].sleepLeft = 0
    /\ IF gen[g].attempt + 1 <= MaxRetries
       THEN gen' = [gen EXCEPT ![g].pc = "loop", ![g].attempt = @ + 1]
       ELSE gen' = [gen EXCEPT ![g].pc = "done", ![g].attempt = @ + 1,
                               ![g].ret = FailedAfter(MaxRetries + 1,
                                                      gen[g].outcomes[Len(gen[g].outcomes)])]
    /\ UNCHANGED <<llmOptions, relayVars, streamVars, flightVars, adaptorVars, registryVars,
                   codecVars>>

\* case <-ctx.Done(): return "", ctx.Err()
WaitCancelled(g) ==
    /\ gen[g].pc = "wait"
    /\ gen[g].ctxDone
    /\ gen' = [gen EXCEPT ![g].pc = "done", ![g].ret = Cancelled]
    /\ UNCHANGED <<llmOptions, relayVars, streamVars, flightVars, adaptorVars, registryVars,
                   codecVars>>

\* The caller cancels the context of its Generate call.
CancelGenerate(g) ==
    /\ gen[g].pc \in {"loop", "chat", "wait"}
    /\ ~gen[g].ctxDone
    /\ gen' = [gen EXCEPT ![g].ctxDone = TRUE]
    /\ UNCHANGED <<llmOptions, relayVars, streamVars, flightVars, adaptorVars, registryVars,
                   codecVars>>

-----------------------------------------------------------------------------
(* Stream chunks.  raw is the payload as bytes: "empty" (no bytes),        *)
(* "blank" (whitespace only), "[DONE]", "garbage" (not JSON), "json" (an   *)
(* object with the fields below, absent fields holding their zero value),  *)
(* or "ioerror": not an event, the body read fails at this point.          *)

Json == [raw |-> "json", etype |-> "", type |-> "", choices |-> 0, role |-> "",
         content |-> "", finish |-> "", dtype |-> "", dtext |-> "",
         cbtype |-> "", cbtext |-> "", errmsg |-> ""]

Raw(r) == [Json EXCEPT !.raw = r]

ReadError == Raw("ioerror")

OpenAIChunks ==
    { Raw("empty"), Raw("blank"), Raw("[DONE]"), Raw("garbage"),
      Json,                                                    \* "choices": []
      [Json EXCEPT !.choices = 1, !.role = "assistant"],       \* role-only delta
      [Json EXCEPT !.choices = 1, !.content = "a"],
      [Json EXCEPT !.choices = 1, !.role = "assistant", !.content = "b"],
      [Json EXCEPT !.choices = 1],                             \* empty delta
      [Json EXCEPT !.choices = 1, !.finish = "stop"] }

AnthropicEvent(t) == [Json EXCEPT !.etype = t, !.type = t]

AnthropicChunks ==
    { Raw("blank"), Raw("garbage"),
      [AnthropicEvent("content_block_delta") EXCEPT !.dtype = "text_delta", !.dtext = "a"],
      [AnthropicEvent("content_block_delta") EXCEPT !.dtype = "input_json_delta"],
      [AnthropicEvent("content_block_start") EXCEPT !.cbtype = "text"],
      [AnthropicEvent("content_block_start") EXCEPT !.cbtype = "text", !.cbtext = "b"],
      AnthropicEvent("ping"),
      AnthropicEvent("message_stop"),
      [AnthropicEvent("error") EXCEPT !.errmsg = "overloaded"] }

Chunks(p) == IF p = "openai" THEN OpenAIChunks ELSE AnthropicChunks

Parsers == {"openai", "anthropic"}

SeqsUpTo(S, n) == UNION { [1..k -> S] : k \in 0..n }

-----------------------------------------------------------------------------
(* The chunk parsers: <<text, err>> as the record [text, err]; err "nil"   *)
(* is Go's nil error, "EOF" is io.EOF, anything else is err.Error().       *)

Parsed(t, e) == [text |-> t, err |-> e]

\* The parser without its finish_reason test.
OpenAIParseStreamResponse_NoFinish(c) ==
    IF c.raw \in {"empty", "blank"} THEN Parsed("", "empty chunk")
    ELSE IF c.raw = "[DONE]" THEN Parsed("", "EOF")
    ELSE IF c.raw # "json" THEN Parsed("", "malformed response")
    ELSE IF c.choices = 0 THEN Parsed("", "no choices in response")
    ELSE IF c.role # "" /\ c.content = "" THEN Parsed("", "skip token")
    ELSE Parsed(c.content, "nil")

OpenAIParseStreamResponse(c) ==
    IF c.raw \in {"empty", "blank"} THEN Parsed("", "empty chunk")
    ELSE IF c.raw = "[DONE]" THEN Parsed("", "EOF")
    ELSE IF c.raw # "json" THEN Parsed("", "malformed response")
    ELSE IF c.choices = 0 THEN Parsed("", "no choices in response")
    ELSE IF c.finish # "" THEN Parsed("", "EOF")
    ELSE IF c.role # "" /\ c.content = "" THEN Parsed("", "skip token")
    ELSE Parsed(c.content, "nil")

AnthropicParseStreamResponse(c) ==
    IF c.raw \in {"empty", "blank"} THEN Parsed("", "empty chunk")
    ELSE IF c.raw # "json" THEN Parsed("", "malformed response")
    ELSE IF c.errmsg # "" THEN Parsed("", c.errmsg)
    ELSE IF c.type = "content_block_delta"
         THEN IF c.dtype = "text_delta" THEN Parsed(c.dtext, "nil")
              ELSE Parsed("", "skip token")
    ELSE IF c.type = "content_block_start"
         THEN IF c.cbtype = "text" /\ c.cbtext # "" THEN Parsed(c.cbtext, "nil")
              ELSE Parsed("", "skip token")
    ELSE IF c.type = "message_stop" THEN Parsed("", "EOF")
    ELSE Parsed("", "skip token")

ParseStreamResponse(p, c) ==
    IF p = "openai" THEN OpenAIParseStreamResponse(c)
    ELSE AnthropicParseStreamResponse(c)

-----------------------------------------------------------------------------
(* SSEDecoder and DefaultRetryStrategy.                                    *)

\* decoder.Next(): "event" (true), "end" (false, Err() nil) or "error"
\* (false, Err() non-nil).  A read on a closed body fails.
DecoderNext ==
    IF closeCount > 0 THEN "error"
    ELSE IF pos >= Len(body) THEN "end"
    ELSE IF body[pos + 1].raw = "ioerror" THEN "error"
    ELSE "event"

DecoderErr == IF closeCount > 0 THEN "read on closed body" ELSE "unexpected EOF"

ShouldRetry(err) == attempts < MaxRetries

NextDelay(n) == Min(RetryDelay * Pow2(n), RetryDelay * MaxWaitFactor)

-----------------------------------------------------------------------------
(* providerStream                                                          *)

Token(text, type, index, cause) ==
    [kind |-> "token", text |-> text, type |-> type, index |-> index,
     err |-> "nil", cause |-> cause]

Failure(err, cause) ==
    [kind |-> "error", text |-> "", type |-> "", index |-> 0,
     err |-> err, cause |-> cause]

\* The skip signal taken for the end of the stream.
ParseOutcome_SkipEnds(r) ==
    IF r.err # "nil"
    THEN IF r.err \in {"skip token", "EOF"} THEN "eof" ELSE "continue"
    ELSE "emit"

\* What Next does with the parser's result (llm.go:675-691).
ParseOutcome(r) ==
    IF r.err # "nil"
    THEN IF r.err = "skip token" THEN "continue"
         ELSE IF r.err = "EOF" THEN "eof"
         ELSE "continue"
    ELSE "emit"

Return(r) ==
    /\ returns' = Append(returns, r)
    /\ pc' = "idle"

StreamInit ==
    /\ parser \in Parsers
    /\ body \in SeqsUpTo(Chunks(parser) \cup {ReadError}, MaxEvents)
    /\ pos = 0
    /\ attempts = 0
    /\ currentIndex = 0
    /\ pc = "idle"
    /\ sleepLeft = 0
    /\ ctxDone = FALSE
    /\ closeCount = 0
    /\ closeCalls = 0
    /\ calls = 0
    /\ returns = <<>>
    /\ RelayIdle
    /\ FlightIdle
    /\ AdaptorIdle
    /\ RegistryInit
    /\ CodecIdle
    /\ LLMIdle

\* No stream is open.
StreamIdle ==
    /\ parser = "openai"
    /\ body = <<>>
    /\ pos = 0
    /\ attempts = 0
    /\ currentIndex = 0
    /\ pc = "idle"
    /\ sleepLeft = 0
    /\ ctxDone = FALSE
    /\ closeCount = 0
    /\ closeCalls = 0
    /\ calls = 0
    /\ returns = <<>>

\* The caller calls Next.
NextCall ==
    /\ pc = "idle"
    /\ calls < MaxCalls
    /\ calls' = calls + 1
    /\ pc' = "loop"
    /\ UNCHANGED <<parser, body, pos, attempts, currentIndex, sleepLeft,
                   ctxDone, closeCount, closeCalls, returns>>
    /\ UNCHANGED <<relayVars, flightVars, adaptorVars, registryVars, codecVars, llmVars>>

\* case <-ctx.Done(): return nil, ctx.Err()
NextCtxDone ==
    /\ pc = "loop"
    /\ ctxDone
    /\ Return(Failure("context canceled", 0))
    /\ UNCHANGED <<parser, body, pos, attempts, currentIndex, sleepLeft,
                   ctxDone, closeCount, closeCalls, calls>>
    /\ UNCHANGED <<relayVars, flightVars, adaptorVars, registryVars, codecVars, llmVars>>

\* decoder.Next() is false with an error the strategy retries: time.Sleep.
NextRetry ==
    /\ pc = "loop"
    /\ ~ctxDone
    /\ DecoderNext = "error"
    /\ ShouldRetry(DecoderErr)
    /\ attempts' = attempts + 1
    /\ sleepLeft' = NextDelay(attempts + 1)
    /\ pc' = "sleep"
    /\ pos' = IF closeCount > 0 THEN pos ELSE pos + 1
    /\ UNCHANGED <<parser, body, currentIndex, ctxDone, closeCount,
                   closeCalls, calls, returns>>
    /\ UNCHANGED <<relayVars, flightVars, adaptorVars, registryVars, codecVars, llmVars>>

\* decoder.Next() is false with an error the strategy gives up on.
NextDecodeError ==
    /\ pc = "loop"
    /\ ~ctxDone
    /\ DecoderNext = "error"
    /\ ~ShouldRetry(DecoderErr)
    /\ Return(Failure(DecoderErr, 0))
    /\ pos' = IF closeCount > 0 THEN pos ELSE pos + 1
    /\ UNCHANGED <<parser, body, attempts, currentIndex, sleepLeft, ctxDone,
                   closeCount, closeCalls, calls>>
    /\ UNCHANGED <<relayVars, flightVars, adaptorVars, registryVars, codecVars, llmVars>>

\* decoder.Next() is false without error: the body has ended.
NextBodyEnd ==
    /\ pc = "loop"
    /\ ~ctxDone
    /\ DecoderNext = "end"
    /\ Return(Failure("EOF", 0))
    /\ UNCHANGED <<parser, body, pos, attempts, currentIndex, sleepLeft,
                   ctxDone, closeCount, closeCalls, calls>>
    /\ UNCHANGED <<relayVars, flightVars, adaptorVars, registryVars, codecVars, llmVars>>

\* decoder.Next() is true: one event, through the parser.
NextEvent ==
    /\ pc = "loop"
    /\ ~ctxDone
    /\ DecoderNext = "event"
    /\ pos' = pos + 1
    /\ LET event == body[pos + 1]
           r == ParseStreamResponse(parser, event)
           out == IF event.raw = "empty" THEN "continue" ELSE ParseOutcome(r)
       IN  CASE out = "continue" ->
                  /\ UNCHANGED <<pc, returns, currentIndex>>
             [] out = "eof" ->
                  /\ Return(Failure("EOF", pos + 1))
                  /\ UNCHANGED currentIndex
             [] out = "emit" ->
                  /\ Return(Token(r.text, event.etype, currentIndex, pos + 1))
                  /\ UNCHANGED currentIndex
    /\ UNCHANGED <<parser, body, attempts, sleepLeft, ctxDone, closeCount,
                   closeCalls, calls>>
    /\ UNCHANGED <<relayVars, flightVars, adaptorVars, registryVars, codecVars, llmVars>>

\* One tick of the time.Sleep of the retry backoff.
SleepTick ==
    /\ pc = "sleep"
    /\ sleepLeft > 0
    /\ sleepLeft' = sleepLeft - 1
    /\ UNCHANGED <<parser, body, pos, attempts, currentIndex, pc, ctxDone,
                   closeCount, closeCalls, calls, returns>>
    /\ UNCHANGED <<relayVars, flightVars, adaptorVars, registryVars, codecVars, llmVars>>

\* time.Sleep returns: continue.
SleepDone ==
    /\ pc = "sleep"
    /\ sleepLeft = 0
    /\ pc' = "loop"
    /\ UNCHANGED <<parser, body, pos, attempts, currentIndex, sleepLeft,
                   ctxDone, closeCount, closeCalls, calls, returns>>
    /\ UNCHANGED <<relayVars, flightVars, adaptorVars, registryVars, codecVars, llmVars>>

\* providerStream.Close: s.reader is never nil for a stream Stream built,
\* and is never reset.
Close ==
    /\ closeCalls < MaxCloses
    /\ closeCalls' = closeCalls + 1
    /\ closeCount' = closeCount + 1
    /\ UNCHANGED <<parser, body, pos, attempts, currentIndex, pc, sleepLeft,
                   ctxDone, calls, returns>>
    /\ UNCHANGED <<relayVars, flightVars, adaptorVars, registryVars, codecVars, llmVars>>

\* The caller cancels the context.
Cancel ==
    /\ ~ctxDone
    /\ ctxDone' = TRUE
    /\ UNCHANGED <<parser, body, pos, attempts, currentIndex, pc, sleepLeft,
                   closeCount, closeCalls, calls, returns>>
    /\ UNCHANGED <<relayVars, flightVars, adaptorVars, registryVars, codecVars, llmVars>>

StreamStep ==
    \/ NextCall
    \/ NextCtxDone
    \/ NextRetry
    \/ NextDecodeError
    \/ NextBodyEnd
    \/ NextEvent
    \/ SleepTick
    \/ SleepDone
    \/ Close
    \/ Cancel

SpecTokenStream == StreamInit /\ [][StreamStep]_vars

-----------------------------------------------------------------------------
(* The Relay state machine.                                                *)

Chat ==
    /\ last.op = "none"
    /\ \E cfg \in Configs \cup {NilConfig} :
           \E c \in ChatResults(cfg) : Finish(c)
    /\ UNCHANGED <<streamVars, flightVars, adaptorVars, registryVars, codecVars, llmVars>>

Media ==
    /\ last.op = "none"
    /\ \E cfg \in PlainConfigs \cup {NilConfig} : \E type \in MediaTypes \cup {"nil"} :
           \E c \in MediaResults(cfg, type) : Finish(c)
    /\ UNCHANGED <<streamVars, flightVars, adaptorVars, registryVars, codecVars, llmVars>>

TaskStatus ==
    /\ last.op = "none"
    /\ \E cfg \in PlainConfigs \cup {NilConfig} : \E isTask, isTaskRequest \in BOOLEAN :
           \E taskID \in {"", "T1"} :
               \E c \in TaskStatusResults(cfg, isTask, taskID, isTaskRequest) : Finish(c)
    /\ UNCHANGED <<streamVars, flightVars, adaptorVars, registryVars, codecVars, llmVars>>

Stream ==
    /\ last.op = "none"
    /\ \E cfg \in PlainConfigs \cup {NilConfig} : \E hasStream \in BOOLEAN :
           \E c \in StreamResults(cfg, hasStream) : Finish(c)
    /\ UNCHANGED <<streamVars, flightVars, adaptorVars, registryVars, codecVars, llmVars>>

\* The caller has taken the result; the Relay keeps its clients.
Done ==
    /\ last.op # "none"
    /\ last' = NoCall
    /\ UNCHANGED <<relayClient, clientTimeout>>
    /\ UNCHANGED <<streamVars, flightVars, adaptorVars, registryVars, codecVars, llmVars>>

Init ==
    RelayInit /\ StreamIdle /\ FlightIdle /\ AdaptorIdle /\ RegistryInit
    /\ CodecIdle /\ LLMIdle

Next == Chat \/ Media \/ TaskStatus \/ Stream \/ Done

Spec == Init /\ [][Next]_vars

-----------------------------------------------------------------------------
(* Concurrent Relay calls on the clients of one Relay.                     *)

FlightStep ==
    \E g \in Goroutines :
        \/ FlightSelect(g)
        \/ FlightSetTimeout(g)
        \/ FlightTestTimeout(g)
        \/ FlightDefaultTimeout(g)
        \/ FlightDo(g)

FlightInit ==
    RelayInit /\ StreamIdle /\ FlightIdle /\ AdaptorIdle /\ RegistryInit
    /\ CodecIdle /\ LLMIdle

SpecConcurrentRelay == FlightInit /\ [][FlightStep]_vars

(* One caller, one config, one request.                                    *)

CallerStep == CallerChat \/ CallerStream

CallerInit ==
    AdaptorInit /\ RelayIdle /\ StreamIdle /\ FlightIdle /\ RegistryInit
    /\ CodecIdle /\ LLMIdle

SpecAdaptor == CallerInit /\ [][CallerStep]_vars

(* Goroutines on the default registry.                                     *)

RegistryStep ==
    \E g \in Goroutines :
        \/ RegistryCall(g)
        \/ OnceRun(g)
        \/ NewRegistry(g)
        \/ OnceSkip(g)
        \/ GetDefaultRegistry(g)
        \/ RegisterLock(g)
        \/ RegisterStore(g)
        \/ RegisterUnlock(g)
        \/ LookupRLock(g)
        \/ LookupReturn(g)

GoroutinesInit ==
    RegistryInit /\ RelayIdle /\ StreamIdle /\ FlightIdle /\ AdaptorIdle
    /\ CodecIdle /\ LLMIdle

SpecRegistry == GoroutinesInit /\ [][RegistryStep]_vars

-----------------------------------------------------------------------------
(* URL resolution on one config.                                           *)

URLStep == ResolveURL \/ ResolveAgain

URLInit ==
    /\ input \in [fn : {"GetRequestURL"}, adaptor : URLAdaptors, mode : Modes,
                  BaseURL : BaseURLs, Model : Models, APIKey : APIKeys]
    /\ output = [done |-> FALSE, urls |-> <<>>]
    /\ RelayIdle /\ StreamIdle /\ FlightIdle /\ AdaptorIdle /\ RegistryInit /\ LLMIdle

SpecURL == URLInit /\ [][URLStep]_vars

-----------------------------------------------------------------------------
(* One chat request through one adaptor's encoder.                         *)

ChatRequestStep == EncodeChat

ChatRequestInit ==
    /\ input \in [fn : {"ConvertChatRequest"}, adaptor : ChatAdaptors, Prompt : Prompts,
                  Messages : MessageLists, Options : ChatOptions, Stream : BOOLEAN,
                  MaxTokens : {"", "16"}]
    /\ output = [done |-> FALSE]
    /\ RelayIdle /\ StreamIdle /\ FlightIdle /\ AdaptorIdle /\ RegistryInit /\ LLMIdle

SpecChatRequest == ChatRequestInit /\ [][ChatRequestStep]_vars

-----------------------------------------------------------------------------
(* One response body through one adaptor's decoder.                        *)

DecodeStep == Decode

DecodeInit ==
    /\ input \in [fn : {"ConvertResponse"}, adaptor : DecodeAdaptors, Name : ProviderNames,
                  mode : {"video", "image"}, body : Bodies]
    /\ output = [done |-> FALSE]
    /\ RelayIdle /\ StreamIdle /\ FlightIdle /\ AdaptorIdle /\ RegistryInit /\ LLMIdle

SpecDecode == DecodeInit /\ [][DecodeStep]_vars

-----------------------------------------------------------------------------
(* One media request through one adaptor.                                  *)

MediaRequestStep == EncodeMedia \/ MediaAnswer

MediaRequestInit ==
    /\ input \in [fn : {"ConvertMediaRequest"}, adaptor : MediaAdaptors, Name : {"p1"},
                  mode : {"video", "image"}, Extra : Extras]
    /\ output = [done |-> FALSE]
    /\ RelayIdle /\ StreamIdle /\ FlightIdle /\ AdaptorIdle /\ RegistryInit /\ LLMIdle

SpecMediaRequest == MediaRequestInit /\ [][MediaRequestStep]_vars

-----------------------------------------------------------------------------
(* Generate calls on one LLM; under SpecGenerateLive a call that can take  *)
(* a step eventually takes one.                                            *)

GenerateOf(g) ==
    \/ GenerateCall(g)
    \/ AttemptGenerate(g)
    \/ ChatReturns(g)
    \/ WaitTick(g)
    \/ WaitElapsed(g)
    \/ WaitCancelled(g)

GenerateStep == \E g \in Goroutines : GenerateOf(g) \/ CancelGenerate(g)

CallersInit ==
    GenerateInit /\ RelayIdle /\ StreamIdle /\ FlightIdle /\ AdaptorIdle /\ RegistryInit
    /\ CodecIdle

SpecGenerate == CallersInit /\ [][GenerateStep]_vars

SpecGenerateLive ==
    CallersInit /\ [][GenerateStep]_vars /\ \A g \in Goroutines : WF_vars(GenerateOf(g))

-----------------------------------------------------------------------------
(* One adaptor through WrapChatWithOpenAI.                                 *)

WrapperStep == Wrap \/ WrapAgain \/ WrappedTaskStatus

WrapperInit ==
    /\ input \in [fn : {"WrapChatWithOpenAI"}, base : BaseAdaptors, taskID : {"", "T1"}]
    /\ output = [done |-> FALSE]
    /\ RelayIdle /\ StreamIdle /\ FlightIdle /\ AdaptorIdle /\ RegistryInit /\ LLMIdle

SpecWrapper == WrapperInit /\ [][WrapperStep]_vars

-----------------------------------------------------------------------------
(* Properties of the Relay.                                                *)

\* C1: in Chat and Media the decode step runs only for status 200 or 202,
\* it runs for every 200 or 202 response that was read in full and its
\* result is what the call returns; for any other status it does not run
\* and the call returns an error.
C1_DecodeIffSuccess ==
    last.op \in {"Chat", "Media"} =>
        /\ last.decoded => last.status \in {200, 202}
        /\ (last.obtained /\ last.readOK /\ last.status \in {200, 202}) =>
               /\ last.decoded
               /\ last.payload = "good" => (last.result = "dto" /\ last.errType = "nil")
               /\ last.payload = "bad" => (last.result = "none" /\ last.err = "decode error")
        /\ (last.obtained /\ last.status \notin {200, 202}) =>
               (~last.decoded /\ last.errType # "nil" /\ last.result = "none")

C1_Witness ==
    /\ last.op = "Media"
    /\ last.status = 202
    /\ last.decoded
    /\ last.result = "dto"

\* C2: every entry point answers a response whose status is outside 2xx
\* with the LLMError carrying that status and config.Name.
C2_UniformError ==
    (/\ last.op \in {"Chat", "Media", "Stream", "TaskStatus"}
     /\ last.obtained /\ last.readOK
     /\ (last.status < 200 \/ last.status >= 300)) =>
        /\ last.errType = "LLMError"
        /\ last.code = last.status
        /\ last.provider = last.cfgName

C11_CallerHeadersWin ==
    last.sent =>
        /\ \A k \in DOMAIN last.cfg.Headers :
               /\ CanonicalHeaderKey(k) \in DOMAIN last.headers
               /\ last.headers[CanonicalHeaderKey(k)] = last.cfg.Headers[k]
        /\ \A k \in DOMAIN AdaptorHeaders :
               (\A o \in DOMAIN last.cfg.Headers : CanonicalHeaderKey(o) # k) =>
                   (k \in DOMAIN last.headers /\ last.headers[k] = AdaptorHeaders[k])
        /\ DOMAIN last.headers =
               DOMAIN AdaptorHeaders
                   \cup { CanonicalHeaderKey(o) : o \in DOMAIN last.cfg.Headers }

\* A TaskStatus call whose caller overrides the adaptor's Authorization.
C11_Witness ==
    /\ last.op = "TaskStatus"
    /\ last.sent
    /\ "authorization" \in DOMAIN last.cfg.Headers
    /\ last.headers["Authorization"] = "caller"
    /\ last.headers["Content-Type"] = "application/json"

\* C12: a Relay call that sends a request uses config.HTTPClient if set,
\* else Relay.Client if set, else a new client, and runs with config.Timeout
\* if positive, else the timeout that client already had if non-zero, else
\* 60 seconds.
C12_ClientAndTimeout ==
    [][ last'.sent =>
            LET cfg == last'.cfg
                cl == IF cfg.HTTPClient # "none" THEN cfg.HTTPClient
                      ELSE IF relayClient # "none" THEN relayClient
                      ELSE "new"
                before == IF cl = "new" THEN 0 ELSE clientTimeout[cl]
            IN  /\ last'.client = cl
                /\ last'.timeout = IF cfg.Timeout > 0 THEN cfg.Timeout
                                   ELSE IF before # 0 THEN before
                                   ELSE 60 ]_vars

\* A Stream call without a timeout of its own ran on Relay.Client with the
\* timeout that client was configured with.
C12_Witness ==
    /\ last.op = "Stream"
    /\ last.sent
    /\ last.cfg.Timeout = 0
    /\ last.cfg.HTTPClient = "none"
    /\ last.client = "rc"
    /\ last.timeout = ClientTimeout

\* C13: no Relay call changes the Timeout of Relay.Client or of
\* config.HTTPClient.
C13_NoStateLeftBehind ==
    [][clientTimeout' = clientTimeout]_vars

\* The errors of request preparation.
PreparationErrors ==
    { "provider config is required", "media request is required",
      "unsupported media type", "convert error", "url error",
      "request url is empty", "invalid request",
      "task status not supported by adaptor", "task id is required",
      "stream adaptor is required", "prepare error", "headers error" }

\* C16: a Relay call that fails while preparing the request returns an
\* error and has sent nothing, and a call that sent nothing returns an error.
C16_PreparationFailsUnsent ==
    last.op # "none" =>
        /\ last.err \in PreparationErrors =>
               (last.errType = "error" /\ last.result = "none" /\ ~last.sent /\ ~last.obtained)
        /\ ~last.sent => (last.errType = "error" /\ last.err \in PreparationErrors)

\* A Media call stopped by the adaptor's SetupHeaders.
C16_Witness ==
    /\ last.op = "Media"
    /\ last.err = "headers error"
    /\ ~last.sent

\* C17: a TaskStatus request is a GET with an empty body when the adaptor is
\* no TaskRequestAdaptor, and otherwise has the method and the body that
\* PrepareTaskStatusRequest returned; when that fails nothing is sent.
C17_TaskRequestShape ==
    last.op = "TaskStatus" =>
        /\ (last.sent /\ ~last.taskReq.custom) =>
               (last.method = "GET" /\ last.reqBody = "")
        /\ (last.sent /\ last.taskReq.custom) =>
               (last.method = last.taskReq.method /\ last.reqBody = last.taskReq.body)
        /\ last.taskReq.err =>
               (~last.sent /\ last.errType = "error" /\ last.err = "prepare error")

\* A TaskStatus call sent the POST its adaptor prepared.
C17_Witness ==
    /\ last.op = "TaskStatus"
    /\ last.sent
    /\ last.taskReq.custom
    /\ last.method = "POST"
    /\ last.reqBody = "payload"

-----------------------------------------------------------------------------
(* Properties of the token stream.                                         *)

Tokens == { i \in 1..Len(returns) : returns[i].kind = "token" }

\* The vendor's completion sentinel, read off the chunk itself.
IsSentinel(p, c) ==
    IF p = "openai"
    THEN c.raw = "[DONE]" \/ (c.raw = "json" /\ c.choices > 0 /\ c.finish # "")
    ELSE c.raw = "json" /\ c.type = "message_stop"

\* The body is a finite sequence of events that ends with the sentinel.
EndsWithSentinel ==
    /\ Len(body) > 0
    /\ \A i \in 1..Len(body) : body[i].raw # "ioerror"
    /\ IsSentinel(parser, body[Len(body)])

\* Nobody cancelled the context or closed the stream so far.
Undisturbed == ~ctxDone /\ closeCount = 0

\* C3: a stream fed events that end with the completion sentinel returns
\* only tokens and io.EOF, fewer tokens than events, and io.EOF once the
\* sentinel is consumed, at the latest by the Len(body)-th Next call.
C3_SentinelEndsStream ==
    (EndsWithSentinel /\ Undisturbed) =>
        /\ \A i \in 1..Len(returns) :
               returns[i].kind = "token" \/ returns[i].err = "EOF"
        /\ Cardinality(Tokens) < Len(body)
        /\ (pc = "idle" /\ pos = Len(body)) => returns[Len(returns)].err = "EOF"
        /\ (pc = "idle" /\ calls >= Len(body)) =>
               \E i \in 1..Len(returns) : returns[i].err = "EOF"

C3_Witness ==
    /\ EndsWithSentinel /\ Undisturbed
    /\ pc = "idle"
    /\ Len(returns) >= 2
    /\ returns[1].kind = "token"
    /\ returns[Len(returns)].err = "EOF"
    /\ returns[Len(returns)].cause = Len(body)

\* C4: no Next call returns (a token, io.EOF or an error) because of an
\* event for which the parser gave the skip signal.
C4_SkipNeverReturns ==
    \A i \in 1..Len(returns) :
        returns[i].cause # 0 =>
            ParseStreamResponse(parser, body[returns[i].cause]).err # "skip token"

\* A skip event was consumed and the same Next call returned the token of
\* the event after it.
C4_Witness ==
    /\ Len(body) = 2
    /\ ParseStreamResponse(parser, body[1]).err = "skip token"
    /\ body[1].raw = "json"
    /\ Len(returns) = 1
    /\ returns[1].kind = "token"
    /\ returns[1].cause = 2

\* The events the parser answered with an error that is neither the skip
\* signal nor io.EOF.
ParserFaults ==
    { i \in 1..pos :
        /\ body[i].raw \notin {"ioerror", "empty"}
        /\ ParseStreamResponse(parser, body[i]).err \notin {"nil", "skip token", "EOF"} }

\* C5: every parser error other than the skip signal and io.EOF is returned
\* by Next, and the stream emits nothing after it.
C5_ParserErrorsSurface ==
    \A i \in ParserFaults :
        /\ \E j \in 1..Len(returns) :
               /\ returns[j].cause = i
               /\ returns[j].err = ParseStreamResponse(parser, body[i]).err
        /\ \A j \in 1..Len(returns) : returns[j].cause > i => returns[j].kind # "token"

\* Next gave up with an error that ends the stream (not io.EOF, not the
\* context's error).
TerminalErrorReturned ==
    \E i \in 1..Len(returns) :
        returns[i].kind = "error" /\ returns[i].err \notin {"EOF", "context canceled"}

\* C6: the response body is closed exactly once: never twice, once as soon
\* as Close was called, and once after a terminal error of Next.
C6_BodyClosedOnce ==
    /\ closeCount <= 1
    /\ closeCalls >= 1 => closeCount = 1
    /\ (TerminalErrorReturned /\ pc = "idle") => closeCount = 1

\* C8: after Next returned io.EOF because the adaptor signalled completion,
\* no later Next call returns a token.
C8_NoTokenAfterEOF ==
    \A i \in 1..Len(returns) : \A j \in 1..Len(returns) :
        (i < j /\ returns[i].err = "EOF" /\ returns[i].cause # 0)
            => returns[j].kind # "token"

\* C9: once the context is cancelled the backoff sleep of a Next call in
\* progress makes no further progress, and the call returns nothing but the
\* context's error.
C9_CancelAbortsBackoff ==
    [][ (ctxDone /\ pc # "idle") =>
            /\ sleepLeft' = sleepLeft
            /\ Len(returns') > Len(returns) =>
                   returns'[Len(returns')].err = "context canceled" ]_vars

\* C10: of two tokens of one stream the later has the greater Index.
C10_IndexIncreases ==
    \A i \in Tokens : \A j \in Tokens :
        i < j => returns[j].index > returns[i].index

-----------------------------------------------------------------------------
(* Properties of concurrent Relay calls.                                   *)

\* Goroutine g is about to read or write the Timeout of a long-lived client.
AccessesTimeout(g) ==
    flight[g].pc \in {"timeout", "default", "do"} /\ flight[g].client \in Clients

\* Goroutine g is about to write it.
WritesTimeout(g) ==
    /\ AccessesTimeout(g)
    /\ \/ flight[g].pc = "timeout" /\ flight[g].cfg.Timeout > 0
       \/ flight[g].pc = "default"

\* Two calls with different config.Timeout are about to access the Timeout
\* of one client, one of them to write it, with nothing ordering the two.
TimeoutRace ==
    \E g \in Goroutines : \E h \in Goroutines \ {g} :
        /\ WritesTimeout(g)
        /\ AccessesTimeout(h)
        /\ flight[g].client = flight[h].client
        /\ flight[g].cfg.Timeout # flight[h].cfg.Timeout

\* C14: of concurrent Relay calls each one that has a config.Timeout runs
\* its request with that timeout, and no two calls with different timeouts
\* access one shared variable unordered, one of them writing.
C14_IndependentCalls ==
    /\ \A g \in Goroutines :
           (flight[g].pc = "done" /\ flight[g].cfg.Timeout > 0) =>
               flight[g].used = flight[g].cfg.Timeout
    /\ ~TimeoutRace

-----------------------------------------------------------------------------
(* Properties of the adaptors.                                             *)

\* C15: no call changes the caller's config.Headers or request.Options, and
\* every Chat call of one caller resolves the same URL and encodes the same
\* body, whatever Stream calls came before it.
C15_AdaptorsPure ==
    [][ /\ config' = config
        /\ request' = request
        /\ \A i \in 1..Len(wire') : \A j \in 1..Len(wire') :
               (wire'[i].op = "Chat" /\ wire'[j].op = "Chat") =>
                   (wire'[i].url = wire'[j].url /\ wire'[i].body = wire'[j].body) ]_vars

-----------------------------------------------------------------------------
(* Properties of the registry.                                             *)

\* Goroutine g has returned from a lookup.
LookedUp(g) ==
    gor[g].pc = "done" /\ gor[g].op \in {"GetProviderSpec", "BuildAdaptor"}

\* The protocol types with a built-in adaptor.
BuiltinTypes == {"openai", "anthropic", "cohere", "ollama"}

\* C18: BuildAdaptor returns an error and no adaptor for a name that is not
\* registered and for a spec without factory whose type has no built-in
\* adaptor; for a spec without factory it never returns neither error nor
\* adaptor.
C18_BuildAdaptorFails ==
    \A g \in Goroutines :
        (gor[g].pc = "done" /\ gor[g].op = "BuildAdaptor") =>
            /\ ~gor[g].got.present =>
                   (gor[g].err # "nil" /\ gor[g].adaptor = "nil")
            /\ (/\ gor[g].got.present
                /\ ~gor[g].got.AdaptorFactory
                /\ gor[g].got.Type \notin BuiltinTypes) =>
                   (gor[g].err # "nil" /\ gor[g].adaptor = "nil")
            /\ (~gor[g].got.AdaptorFactory /\ gor[g].err = "nil") =>
                   gor[g].adaptor # "nil"

\* BuildAdaptor refused a registered spec of type custom without factory.
C18_Witness ==
    \E g \in Goroutines :
        /\ gor[g].pc = "done" /\ gor[g].op = "BuildAdaptor"
        /\ gor[g].got.present
        /\ gor[g].got.Type = "custom"
        /\ ~gor[g].got.AdaptorFactory
        /\ gor[g].err = "requires a custom adaptor"
        /\ gor[g].adaptor = "nil"

\* C19: a lookup returns, if anything, a spec that was stored whole under
\* that name (by NewRegistry or by a registration), with Name equal to the
\* name; it returns one whenever the name was known when the lookup began;
\* and BuildAdaptor hands on the spec it looked up.
C19_RegistrationAtomic ==
    \A g \in Goroutines :
        LookedUp(g) =>
            /\ gor[g].got.present =>
                   /\ gor[g].got \in history[gor[g].name] \cup {Known[gor[g].name]}
                   /\ gor[g].got.Name = gor[g].name
            /\ gor[g].expect => gor[g].got.present
            /\ (gor[g].op = "BuildAdaptor" /\ gor[g].err = "nil") =>
                   gor[g].spec = gor[g].got

\* A lookup of "mine" that began before any registration of "mine" had
\* returned, and saw the whole spec of a RegisterAdaptor call.
C19_Witness ==
    \E g \in Goroutines : \E h \in Goroutines \ {g} :
        /\ LookedUp(g)
        /\ gor[g].name = "mine"
        /\ ~gor[g].expect
        /\ gor[h].op = "RegisterAdaptor" /\ gor[h].name = "mine"
        /\ gor[g].got = gor[h].arg
        /\ gor[g].got.Name = "mine"
        /\ gor[g].got.AdaptorFactory

\* C20: NewRegistry runs at most once for the default registry, every
\* caller of GetDefaultRegistry gets that one registry, and a name one
\* caller's registration made visible is found by every later lookup.
C20_DefaultRegistryOnce ==
    /\ instances <= 1
    /\ \A g \in Goroutines :
           gor[g].pc \in {"have", "store", "stored", "load", "done"} =>
               (instances = 1 /\ gor[g].reg = 1 /\ defaultRegistry = 1)
    /\ \A g \in Goroutines :
           (LookedUp(g) /\ gor[g].name \in visible /\ gor[g].expect) =>
               gor[g].got.present

\* One goroutine registered "mine", another then looked it up and found it.
C20_Witness ==
    \E g \in Goroutines : \E h \in Goroutines \ {g} :
        /\ gor[h].pc = "done" /\ gor[h].op = "RegisterProvider" /\ gor[h].name = "mine"
        /\ LookedUp(g) /\ gor[g].name = "mine" /\ gor[g].expect
        /\ gor[g].got.present
        /\ gor[g].reg = gor[h].reg
        /\ instances = 1

-----------------------------------------------------------------------------
(* Properties of the adaptor functions.                                    *)

\* C21: URL resolution is idempotent: GetRequestURL on a config whose
\* BaseURL is the URL an earlier GetRequestURL returned gives that URL
\* back, and on a bare host the result extends the host by the suffix.
C21_URLIdempotent ==
    (input.fn = "GetRequestURL" /\ output.done) =>
        /\ \A i \in 2..Len(output.urls) : output.urls[i] = output.urls[i - 1]
        /\ Len(input.BaseURL) = 1 =>
               /\ Len(output.urls[1]) > 1
               /\ SubSeq(output.urls[1], 1, 1) = input.BaseURL


\* The user-role messages of a message list.
UserMessages(messages) == SelectSeq(messages, LAMBDA msg : msg.Role = "user")

\* The adaptors whose chat payload carries a message list.
MessageAdaptors == {"openai", "google", "ali", "cohere"}

\* C22: for a request with a non-empty Prompt and no messages, the
\* encoded payload holds exactly one user-role message, whose content is
\* the prompt.
C22_PromptBecomesUserMessage ==
    (/\ input.fn = "ConvertChatRequest"
     /\ output.done
     /\ input.adaptor \in MessageAdaptors
     /\ input.Prompt # ""
     /\ input.Messages = <<>>)
    => UserMessages(output.payload.messages) = <<Message("user", input.Prompt)>>


\* The adaptors that merge request.Options into the payload.
MergingAdaptors == {"openai", "cohere", "ollama"}

\* The option keys the adaptors consume themselves.
ConsumedKeys == {"system_prompt", "structured_messages"}

\* C24: where the options are merged into the payload, system_prompt and
\* structured_messages are no top-level fields of it, and every other
\* option is one, with the caller's value.
C24_OptionsDenyList ==
    (/\ input.fn = "ConvertChatRequest"
     /\ output.done
     /\ input.adaptor \in MergingAdaptors)
    => /\ DOMAIN output.payload.fields \cap ConsumedKeys = {}
       /\ \A k \in DOMAIN input.Options \ ConsumedKeys :
              /\ k \in DOMAIN output.payload.fields
              /\ output.payload.fields[k] = input.Options[k]


\* The body carries the vendor's error sentinel.
Sentinel(a, b) ==
    /\ b.json
    /\ CASE a = "ali" -> b.code # ""
         [] a = "jimeng" -> b.vendorCode # JimengSuccess
         [] a = "openai" -> b.error

\* C23: a body with the vendor's error sentinel decodes into the uniform
\* error with provider config.Name, never into a success DTO.
C23_SentinelBecomesError ==
    (/\ input.fn = "ConvertResponse"
     /\ output.done
     /\ input.adaptor = "jimeng" => input.mode = "video"
     /\ Sentinel(input.adaptor, input.body))
    => /\ output.result.kind = "llmerror"
       /\ output.result.Provider = input.Name


\* C25: when Extra holds an object under payload, the body is the
\* serialization of that object and nothing else; the computed payload is
\* the body only if the key is absent or the object does not serialize.
C25_RawOverride ==
    (/\ input.fn = "ConvertMediaRequest"
     /\ output.done
     /\ input.adaptor = "ali" => input.mode = "video"
     /\ input.adaptor = "jimeng" => input.mode = "video"
     /\ ExtraGet(input.Extra, "payload").type \in {"object", "nil"})
    => LET raw == ExtraGet(input.Extra, "payload")
       IN  /\ (raw.type = "object" /\ raw.marshals) =>
                  output.result = Bytes("payload", raw.v, {})
           /\ output.result.kind # "panic"
           /\ (output.result.kind = "bytes" /\ output.result.marshalled # "payload") =>
                  (raw.type = "nil" \/ ~raw.marshals)

\* C26: JimengAdaptor.ConvertMediaRequest returns bytes or an error for
\* every video request; with Extra = {"req_key": "x"} and a vendor that
\* accepts the task as T1, Relay.Media returns TaskID "T1" and Status
\* "submitted".
C26_JimengVideoSubmits ==
    (/\ input.fn = "ConvertMediaRequest"
     /\ output.done
     /\ input.adaptor = "jimeng"
     /\ input.mode = "video")
    => /\ output.result.kind \in {"bytes", "error"}
       /\ (~input.Extra.nil /\ input.Extra.m = [k \in {"req_key"} |-> Value("string", "x", TRUE)])
              => /\ output.result.kind = "bytes"
                 /\ output.answered => output.response = DTO(0, "T1", "submitted")


\* C30: the adaptor WrapChatWithOpenAI returns has every optional
\* capability of the base adaptor, Relay.TaskStatus behaves with it as
\* with the base adaptor, and wrapping it again returns it unchanged.
C30_WrapperKeepsCapabilities ==
    (input.fn = "WrapChatWithOpenAI" /\ output.done /\ input.base # <<>>)
    => /\ \A c \in Capabilities : Implements(input.base, c) => Implements(output.wrapped, c)
       /\ output.ofWrapped = output.ofBase
       /\ output.rewrapped => output.again = output.wrapped

-----------------------------------------------------------------------------
(* Properties of LLMImpl.Generate.                                         *)

\* Every attempt of g's call ended in a vendor API error.
AllAPIErrors(g) ==
    /\ gen[g].outcomes # <<>>
    /\ \A i \in 1..Len(gen[g].outcomes) : gen[g].outcomes[i].kind = "api"

\* C27: when Generate fails because every attempt ended in a vendor API
\* error, the error it returns carries the last attempt's status code,
\* vendor message and provider.
C27_FinalErrorCarriesCause ==
    \A g \in Goroutines :
        (gen[g].ret.kind = "error" /\ AllAPIErrors(g))
        => gen[g].ret.cause = gen[g].outcomes[Len(gen[g].outcomes)]


\* g's call made at most MaxRetries+1 Relay.Chat calls, none after a
\* successful one, and waited RetryDelay after each failed attempt but
\* the last.
AttemptsBounded(g) ==
    LET c == gen[g]
    IN  /\ Len(c.sent) <= MaxRetries + 1
        /\ \A i \in 1..Len(c.outcomes) :
               c.outcomes[i] = NoError => (i = Len(c.outcomes) /\ c.ret = Generated)
        /\ Len(c.waits) <= MaxRetries
        /\ Len(c.waits) <= Len(c.outcomes)
        /\ \A i \in 1..Len(c.waits) :
               (i < Len(c.waits) \/ c.pc \in {"loop", "chat"}) => c.waits[i] = RetryDelay
        /\ c.ret.kind = "error" => Len(c.waits) = Len(c.outcomes) - 1

\* While g waits with its context cancelled and the delay not over, its
\* next step returns ctx.Err().
CancelledWaitReturns(g) ==
    (gen[g].pc = "wait" /\ gen[g].ctxDone /\ gen[g].sleepLeft > 0 /\ gen'[g] # gen[g])
    => (gen'[g].pc = "done" /\ gen'[g].ret = Cancelled /\ gen'[g].sent = gen[g].sent)

\* C28: Generate terminates; it makes at most MaxRetries+1 calls to
\* Relay.Chat and none after a success, waits RetryDelay between attempts
\* and not after the last, and returns the context's error when the
\* context is cancelled during a wait.
C28_GenerateTerminates ==
    /\ [](\A g \in Goroutines : AttemptsBounded(g))
    /\ [][\A g \in Goroutines : CancelledWaitReturns(g)]_vars
    /\ <>(\A g \in Goroutines : gen[g].pc = "done")

C28_Witness ==
    \E g, h \in Goroutines :
        /\ gen[g].ret.kind = "error"
        /\ Len(gen[g].outcomes) = MaxRetries + 1
        /\ gen[g].waits = [i \in 1..MaxRetries |-> RetryDelay]
        /\ gen[h].ret = Cancelled
        /\ gen[h].waits[Len(gen[h].waits)] < RetryDelay

\* The system messages of a request.
SystemMessages(messages) == SelectSeq(messages, LAMBDA msg : msg.Role = "system")

\* C29: the system prompt in every request of a Generate call is that
\* call's own prompt.SystemPrompt; a call without one sends none.
C29_OwnSystemPrompt ==
    \A g \in Goroutines :
        \A i \in 1..Len(gen[g].sent) :
            SystemMessages(gen[g].sent[i]) =
                IF gen[g].SystemPrompt = "" THEN <<>>
                ELSE <<Message("system", gen[g].SystemPrompt)>>

=============================================================================
